---- MODULE Spec2Model ----
(***************************************************************************)
(* Model of the annotation tool state of the screenshot editor             *)
(* (src/src/tools.rs, AnnotationTools and DrawingStroke) together with the *)
(* editor's Clear-button handler (src/src/editor.rs).                      *)
(*                                                                         *)
(* Rust values are represented as follows:                                 *)
(*   Option<T>   the empty sequence <<>> for None, <<v>> for Some(v)       *)
(*   ()          the empty sequence <<>> (Unit)                            *)
(*   f64         the thickness values the program uses are whole numbers;  *)
(*               they are kept as integers (3.0 is 3)                      *)
(*   RGBA        the tuple <<red, green, blue, alpha>>                     *)
(*   Point       the record [x |-> .., y |-> ..]                           *)
(***************************************************************************)
EXTENDS Integers, Sequences, FiniteSets, TLC

VARIABLES
    current_tool,       \* AnnotationTools.current_tool
    current_color,      \* AnnotationTools.current_color
    current_thickness,  \* AnnotationTools.current_thickness
    strokes,            \* AnnotationTools.strokes (finished strokes, in order)
    current_stroke,     \* AnnotationTools.current_stroke (Option)
    info_log,           \* the count of the latest "Clearing {} annotations" line
    status,             \* the editor's status bar text
    call,               \* the latest call into AnnotationTools: name, arguments, result
    hist,               \* the calls of the running start; add*; finish|cancel sequence
    snap,               \* the state at the latest start_stroke (Option)
    prev,               \* the AnnotationTools fields before the latest event
    ncalls,             \* number of calls into AnnotationTools so far
    \* the editor (src/src/editor.rs)
    is_drawing,         \* the is_drawing flag shared by the input handlers
    screenshot_surface, \* AnnotationEditor.screenshot_surface (Option)
    canvas,             \* what the latest draw callback painted, in order
    target_file,        \* the file at the path chosen in the save dialog (Option)
    clipboard,          \* the image on the system clipboard (Option)
    last_export,        \* the latest save or copy: what it did and what was there before
    \* the capture window and its capture operations (src/src/main.rs)
    window,             \* the capture ApplicationWindow: [visible, closed]
    stage,              \* what the user is looking at
    worker,             \* the thread spawned by proceed_with_screenshot
    channel,            \* results sent on the mpsc channel and not yet received
    timer,              \* the 100 ms polling source of proceed_with_screenshot
    dialog,             \* the modal error dialog on screen (Option)
    captures,           \* every blocking capture call made: [kind, thread]
    capture_op,         \* the capture operation under way: what it sent, received, opened
    png,                \* the preview's PNG data kept by the selection overlay (Option)
    ncaptures,          \* number of capture operations started
    \* the pixel buffers of load_image_data and of the export (src/src/editor.rs)
    rgba_image,         \* the decoded image: [width, height, pixels]
    stride,             \* the stride of the screenshot surface
    surface_data,       \* the bytes of the screenshot surface
    written,            \* the byte offsets load_image_data has written
    render_stride,      \* the stride of the export's render surface
    render_data,        \* the bytes of the export's render surface
    rgba_data,          \* the bytes the export loop has produced
    px_stage,           \* how far the buffers have come
    \* the crops of a captured image (src/src/capture.rs, src/src/main.rs)
    crop_request,       \* the decoded image and the x, y, width, height asked for
    region_result,      \* what crop_image_region returned (Option)
    direct_result,      \* what crop_png_data_direct returned (Option)
    \* the process (src/src/main.rs)
    argv,               \* the command line after the program's name
    stdout,             \* the lines the program has printed on standard output
    exit_code,          \* the status the process has exited with (Option)
    \* the pointer mapping of the drawing area (src/src/editor.rs)
    pointer,            \* the area's size, the image's size and the pointer's position
    pressed_point,      \* the point connect_pressed handed to start_stroke (Option)
    motion_point,       \* the point connect_motion handed to add_point_to_stroke (Option)
    coordinates,        \* the point connect_motion handed to set_coordinates (Option)
    drawn_point,        \* where the draw callback puts the pressed point (Option)
    \* the drawing of one stroke (src/src/tools.rs)
    stroke_arg,         \* the stroke handed to DrawingStroke::draw
    ctx,                \* the cairo calls DrawingStroke::draw has made (Option)
    \* the toolbar (src/src/ui.rs)
    thickness_scale     \* the value of the toolbar's thickness Scale

tools == <<current_tool, current_color, current_thickness, strokes, current_stroke>>

editor_vars == <<is_drawing, screenshot_surface, canvas, target_file, clipboard,
                 last_export>>

capture_vars == <<window, stage, worker, channel, timer, dialog, captures, capture_op,
                  png, ncaptures>>

(* AnnotationTools, the status bar and the record of the calls made *)
annotation_vars == <<tools, info_log, status, call, hist, snap, prev, ncalls>>

crop_vars == <<crop_request, region_result, direct_result>>

(* The image computations: the pixel buffers and the crops *)
pixel_vars == <<rgba_image, stride, surface_data, written, render_stride, render_data,
                rgba_data, px_stage, crop_vars>>

process_vars == <<argv, stdout, exit_code>>

mapping_vars == <<pointer, pressed_point, motion_point, coordinates, drawn_point>>

draw_vars == <<stroke_arg, ctx>>

(* What surrounds the editor's core: the process, the pointer mapping, the
   drawing of a stroke and the toolbar's slider *)
front_vars == <<process_vars, mapping_vars, draw_vars, thickness_scale>>

(* Everything that is not part of AnnotationTools or the record of its calls *)
outside == <<editor_vars, capture_vars, pixel_vars, front_vars>>

vars == <<current_tool, current_color, current_thickness, strokes, current_stroke,
          info_log, status, call, hist, snap, prev, ncalls, outside>>

----------------------------------------------------------------------------
(* Bounds and input domains *)

MaxCalls == 5

ToolType == {"Pencil", "Line", "Arrow", "Highlighter"}

Red == <<1, 0, 0, 1>>

Green == <<0, 1, 0, 1>>

ColorInputs == {Red, Green}

ThicknessInputs == {5}

PointInputs == {[x |-> 0, y |-> 0], [x |-> 10, y |-> 10]}

None == <<>>

Some(v) == <<v>>

Unit == <<>>

----------------------------------------------------------------------------
(* DrawingStroke *)

DrawingStroke_new(tool_type, color, thickness) ==
    [tool_type |-> tool_type,
     points    |-> <<>>,
     color     |-> color,
     thickness |-> thickness,
     finished  |-> FALSE]

(* Variant of add_point that puts the new point first *)
add_point_prepend(stroke, point) ==
    [stroke EXCEPT !.points = <<point>> \o stroke.points]

add_point(stroke, point) ==
    [stroke EXCEPT !.points = Append(stroke.points, point)]

(* Variant of finish that leaves the flag as it is *)
finish_noop(stroke) ==
    stroke

finish(stroke) ==
    [stroke EXCEPT !.finished = TRUE]

----------------------------------------------------------------------------
(* AnnotationTools *)

Fields(tool, color, thickness, finished_strokes, in_progress) ==
    [current_tool      |-> tool,
     current_color     |-> color,
     current_thickness |-> thickness,
     strokes           |-> finished_strokes,
     current_stroke    |-> in_progress]

Now == Fields(current_tool, current_color, current_thickness, strokes, current_stroke)

(* No pixel buffer under conversion *)
(* Started without arguments and running; no pointer mapped, no stroke handed
   to draw; the slider as create_thickness_scale leaves it *)
FrontIdle ==
    /\ argv = <<>>
    /\ stdout = <<>>
    /\ exit_code = <<>>
    /\ pointer = <<>>
    /\ pressed_point = <<>>
    /\ motion_point = <<>>
    /\ coordinates = <<>>
    /\ drawn_point = <<>>
    /\ stroke_arg = <<>>
    /\ ctx = <<>>
    /\ thickness_scale = 3

(* No crop has been asked for *)
CropIdle ==
    /\ crop_request = <<>>
    /\ region_result = <<>>
    /\ direct_result = <<>>

PixelsIdle ==
    /\ rgba_image = [width |-> 0, height |-> 0, pixels |-> <<>>]
    /\ stride = 0
    /\ surface_data = <<>>
    /\ written = {}
    /\ render_stride = 0
    /\ render_data = <<>>
    /\ rgba_data = <<>>
    /\ px_stage = "none"
    /\ CropIdle

(* The capture side once a full-screen capture has opened the editor: the
   worker has sent its result and ended, the timer has received it, stopped and
   closed the capture window *)
EditorOpened ==
    /\ window = [visible |-> FALSE, closed |-> TRUE]
    /\ stage = "editor"
    /\ worker = "done"
    /\ channel = <<>>
    /\ timer = "stopped"
    /\ dialog = None
    /\ captures = <<[kind |-> "full", thread |-> "worker"]>>
    /\ capture_op = [path |-> "full", sent |-> 1, received |-> 1, editors |-> 1,
                     dialogs |-> 0, result |-> "editor"]
    /\ png = None
    /\ ncaptures = 1

(* The editor's own state right after AnnotationEditor::new *)
EditorIdle ==
    /\ is_drawing = FALSE
    /\ screenshot_surface = Some("screenshot")
    /\ canvas = <<>>
    /\ target_file = None
    /\ clipboard = None
    /\ last_export = None
    /\ EditorOpened
    /\ PixelsIdle
    /\ FrontIdle

default_thickness(tool) ==
    CASE tool = "Pencil"      -> 3
      [] tool = "Line"        -> 2
      [] tool = "Arrow"       -> 2
      [] tool = "Highlighter" -> 8

Init ==
    /\ current_tool = "Pencil"
    /\ current_color = Red
    /\ current_thickness = 3
    /\ strokes = <<>>
    /\ current_stroke = None
    /\ info_log = <<>>
    /\ status = <<"Ready">>
    /\ call = [op |-> "new", args |-> <<>>, ret |-> Unit, via |-> "new"]
    /\ hist = <<>>
    /\ snap = None
    /\ prev = Fields("Pencil", Red, 3, <<>>, None)
    /\ ncalls = 0
    /\ EditorIdle

(* Variant of set_tool that keeps the thickness chosen before *)
set_tool_keep_thickness(tool) ==
    /\ current_tool' = tool
    /\ UNCHANGED <<current_color, current_thickness, strokes, current_stroke, info_log>>

set_tool(tool) ==
    /\ current_tool' = tool
    /\ current_thickness' = default_thickness(tool)
    /\ UNCHANGED <<current_color, strokes, current_stroke, info_log>>

set_color(color) ==
    /\ current_color' = color
    /\ UNCHANGED <<current_tool, current_thickness, strokes, current_stroke, info_log>>

(* Variant of set_thickness that also restyles the stroke being drawn *)
set_thickness_retro(thickness) ==
    /\ current_thickness' = thickness
    /\ current_stroke' =
          IF current_stroke # None
          THEN Some([current_stroke[1] EXCEPT !.thickness = thickness])
          ELSE current_stroke
    /\ UNCHANGED <<current_tool, current_color, strokes, info_log>>

set_thickness(thickness) ==
    /\ current_thickness' = thickness
    /\ UNCHANGED <<current_tool, current_color, strokes, current_stroke, info_log>>

(* Variant of start_stroke that ignores the call while a stroke is in progress *)
start_stroke_ignore(point) ==
    /\ current_stroke' =
          IF current_stroke # None
          THEN current_stroke
          ELSE Some(add_point(DrawingStroke_new(current_tool, current_color,
                                                current_thickness), point))
    /\ UNCHANGED <<current_tool, current_color, current_thickness, strokes, info_log>>

start_stroke(point) ==
    /\ current_stroke' =
          Some(add_point(DrawingStroke_new(current_tool, current_color,
                                           current_thickness), point))
    /\ UNCHANGED <<current_tool, current_color, current_thickness, strokes, info_log>>

(* Variant of add_point_to_stroke that starts a stroke when there is none *)
add_point_to_stroke_autostart(point) ==
    /\ current_stroke' =
          IF current_stroke # None
          THEN Some(add_point(current_stroke[1], point))
          ELSE Some(add_point(DrawingStroke_new(current_tool, current_color,
                                                current_thickness), point))
    /\ UNCHANGED <<current_tool, current_color, current_thickness, strokes, info_log>>

add_point_to_stroke(point) ==
    /\ current_stroke' =
          IF current_stroke # None
          THEN Some(add_point(current_stroke[1], point))
          ELSE current_stroke
    /\ UNCHANGED <<current_tool, current_color, current_thickness, strokes, info_log>>

(* Variant of finish_stroke that reads the stroke without taking it *)
finish_stroke_no_take ==
    /\ IF current_stroke # None
       THEN /\ strokes' = Append(strokes, finish(current_stroke[1]))
            /\ UNCHANGED current_stroke
       ELSE UNCHANGED <<strokes, current_stroke>>
    /\ UNCHANGED <<current_tool, current_color, current_thickness, info_log>>

finish_stroke ==
    /\ IF current_stroke # None
       THEN /\ strokes' = Append(strokes, finish(current_stroke[1]))
            /\ current_stroke' = None
       ELSE UNCHANGED <<strokes, current_stroke>>
    /\ UNCHANGED <<current_tool, current_color, current_thickness, info_log>>

(* Variant of cancel_stroke that keeps the stroke in the history *)
cancel_stroke_push ==
    /\ strokes' = IF current_stroke # None
                  THEN Append(strokes, finish(current_stroke[1]))
                  ELSE strokes
    /\ current_stroke' = None
    /\ UNCHANGED <<current_tool, current_color, current_thickness, info_log>>

cancel_stroke ==
    /\ current_stroke' = None
    /\ UNCHANGED <<current_tool, current_color, current_thickness, strokes, info_log>>

(* Variant of clear_all that forgets the stroke in progress *)
clear_all_keep_current ==
    /\ info_log' = <<Len(strokes)>>
    /\ strokes' = <<>>
    /\ UNCHANGED <<current_tool, current_color, current_thickness, current_stroke>>

clear_all ==
    /\ info_log' = <<Len(strokes)>>
    /\ strokes' = <<>>
    /\ current_stroke' = None
    /\ UNCHANGED <<current_tool, current_color, current_thickness>>

----------------------------------------------------------------------------
(* Bookkeeping of the events: every AnnotationTools method returns (); the   *)
(* record of the latest event (the call it made, "none" if it made none,    *)
(* and where it came from) and the fields before it are kept for the        *)
(* properties.                                                              *)

Running ==
    /\ hist # <<>>
    /\ hist[Len(hist)].op \in {"start_stroke", "add_point_to_stroke"}

Track(op, args, via) ==
    /\ ncalls' = ncalls + 1
    /\ call' = [op |-> op, args |-> args, ret |-> Unit, via |-> via]
    /\ prev' = Now
    /\ hist' = IF op = "start_stroke"
               THEN <<[op |-> op, args |-> args]>>
               ELSE IF Running /\ op \in {"add_point_to_stroke", "finish_stroke",
                                          "cancel_stroke"}
               THEN Append(hist, [op |-> op, args |-> args])
               ELSE <<>>
    /\ snap' = IF op = "start_stroke"
               THEN Some([strokes   |-> strokes,
                          idle      |-> current_stroke = None,
                          tool      |-> current_tool,
                          color     |-> current_color,
                          thickness |-> current_thickness])
               ELSE IF current_stroke # None THEN snap ELSE None

----------------------------------------------------------------------------
(* Actions: the calls a client of AnnotationTools makes *)

SetTool ==
    \E tool \in ToolType :
        /\ ncalls < MaxCalls
        /\ set_tool(tool)
        /\ Track("set_tool", <<tool>>, "direct")
        /\ UNCHANGED <<status, outside>>

SetColor ==
    \E color \in ColorInputs :
        /\ ncalls < MaxCalls
        /\ set_color(color)
        /\ Track("set_color", <<color>>, "direct")
        /\ UNCHANGED <<status, outside>>

SetThickness ==
    \E thickness \in ThicknessInputs :
        /\ ncalls < MaxCalls
        /\ set_thickness(thickness)
        /\ Track("set_thickness", <<thickness>>, "direct")
        /\ UNCHANGED <<status, outside>>

StartStroke ==
    \E point \in PointInputs :
        /\ ncalls < MaxCalls
        /\ start_stroke(point)
        /\ Track("start_stroke", <<point>>, "direct")
        /\ UNCHANGED <<status, outside>>

AddPointToStroke ==
    \E point \in PointInputs :
        /\ ncalls < MaxCalls
        /\ add_point_to_stroke(point)
        /\ Track("add_point_to_stroke", <<point>>, "direct")
        /\ UNCHANGED <<status, outside>>

FinishStroke ==
    /\ ncalls < MaxCalls
    /\ finish_stroke
    /\ Track("finish_stroke", <<>>, "direct")
    /\ UNCHANGED <<status, outside>>

CancelStroke ==
    /\ ncalls < MaxCalls
    /\ cancel_stroke
    /\ Track("cancel_stroke", <<>>, "direct")
    /\ UNCHANGED <<status, outside>>

ClearAll ==
    /\ ncalls < MaxCalls
    /\ clear_all
    /\ Track("clear_all", <<>>, "direct")
    /\ UNCHANGED <<status, outside>>

(* drawing_area.queue_draw(): the painted frame is invalidated until the draw
   callback runs again *)
queue_draw == canvas' = <<>>

(* Variant of the Clear handler that reads the count after clearing *)
clear_clicked_count_after ==
    IF Len(strokes) > 0
    THEN /\ clear_all
         /\ Track("clear_all", <<>>, "clear_clicked")
         /\ queue_draw
         /\ status' = <<"Cleared {} annotations", Len(strokes')>>
    ELSE /\ status' = <<"No annotations to clear">>
         /\ UNCHANGED canvas
         /\ call' = [op |-> "none", args |-> <<>>, ret |-> Unit, via |-> "clear_clicked"]
         /\ prev' = Now
         /\ UNCHANGED <<tools, info_log, hist, snap, ncalls>>

(* The toolbar's Clear button: connect_clear_clicked in setup_toolbar_callbacks *)
clear_clicked ==
    LET stroke_count == Len(strokes) IN
    IF stroke_count > 0
    THEN /\ clear_all
         /\ Track("clear_all", <<>>, "clear_clicked")
         /\ queue_draw
         /\ status' = <<"Cleared {} annotations", stroke_count>>
    ELSE /\ status' = <<"No annotations to clear">>
         /\ UNCHANGED canvas
         /\ call' = [op |-> "none", args |-> <<>>, ret |-> Unit, via |-> "clear_clicked"]
         /\ prev' = Now
         /\ UNCHANGED <<tools, info_log, hist, snap, ncalls>>

ClearClicked ==
    /\ ncalls < MaxCalls
    /\ clear_clicked
    /\ UNCHANGED <<is_drawing, screenshot_surface, target_file, clipboard, last_export,
                   capture_vars, pixel_vars, front_vars>>

Next ==
    \/ SetTool
    \/ SetColor
    \/ SetThickness
    \/ StartStroke
    \/ AddPointToStroke
    \/ FinishStroke
    \/ CancelStroke
    \/ ClearAll
    \/ ClearClicked

Spec == Init /\ [][Next]_vars

----------------------------------------------------------------------------
(* The annotation editor: rendering (tools.rs draw_all, editor.rs) *)

(* One drawing operation on a cairo context *)
Paint(kind, how) == [kind |-> kind, what |-> <<how>>]

(* DrawingStroke::draw: nothing for a stroke without points, else the
   tool-specific routine for the stroke *)
stroke_draw(stroke) ==
    IF stroke.points = <<>> THEN <<>> ELSE <<Paint("stroke", stroke)>>

RECURSIVE draw_strokes(_)
(* The loop `for stroke in &self.strokes` of draw_all *)
draw_strokes(ss) ==
    IF ss = <<>> THEN <<>> ELSE stroke_draw(Head(ss)) \o draw_strokes(Tail(ss))

(* Variant of draw_all that draws the in-progress stroke underneath *)
draw_all_current_first ==
    (IF current_stroke # None THEN stroke_draw(current_stroke[1]) ELSE <<>>)
        \o draw_strokes(strokes)

(* AnnotationTools::draw_all: the operations it issues, in order *)
draw_all ==
    draw_strokes(strokes)
        \o (IF current_stroke # None THEN stroke_draw(current_stroke[1]) ELSE <<>>)

(* What the drawing area's draw callback paints, in order *)
draw_func_ops ==
    <<Paint("gradient", "fill"), Paint("texture", "dots")>>
        \o (IF screenshot_surface # None
            THEN <<Paint("screenshot", "fit")>>
            ELSE <<Paint("placeholder", "fill")>>)
        \o draw_all

(* What render_to_file_static and copy_to_clipboard_static paint on the
   render surface when no step fails *)
export_ops ==
    (IF screenshot_surface # None THEN <<Paint("screenshot", "1:1")>> ELSE <<>>)
        \o draw_all

(* A handler that makes no call into AnnotationTools *)
NoCall(via) ==
    /\ call' = [op |-> "none", args |-> <<>>, ret |-> Unit, via |-> via]
    /\ prev' = Now
    /\ UNCHANGED <<tools, info_log, hist, snap, ncalls>>

(* A handler whose only call is the read-only draw_all(&self) *)
Observe(via) ==
    /\ ncalls' = ncalls + 1
    /\ call' = [op |-> "draw_all", args |-> <<>>, ret |-> Unit, via |-> via]
    /\ prev' = Now
    /\ UNCHANGED <<tools, info_log, hist, snap>>

(* set_draw_func callback of the drawing area *)
DrawFunc ==
    /\ ncalls < MaxCalls
    /\ canvas' = draw_func_ops
    /\ Observe("draw_func")
    /\ UNCHANGED <<status, is_drawing, screenshot_surface, target_file, clipboard,
                   last_export,
                   capture_vars, pixel_vars, front_vars>>

----------------------------------------------------------------------------
(* The annotation editor: toolbar callbacks and input handlers (editor.rs) *)

(* connect_tool_changed / connect_color_changed / connect_thickness_changed *)
(* The toolbar choices exercised in the editor *)
EditorToolInputs == {"Arrow"}

EditorColorInputs == {Green}

ToolChanged ==
    /\ ncalls < MaxCalls
    /\ \E tool \in EditorToolInputs :
        /\ set_tool(tool)
        /\ Track("set_tool", <<tool>>, "tool_changed")
    /\ queue_draw
    /\ UNCHANGED <<status, is_drawing, screenshot_surface, target_file, clipboard,
                   last_export,
                   capture_vars, pixel_vars, front_vars>>

ColorChanged ==
    /\ ncalls < MaxCalls
    /\ \E color \in EditorColorInputs :
        /\ set_color(color)
        /\ Track("set_color", <<color>>, "color_changed")
    /\ queue_draw
    /\ UNCHANGED <<status, is_drawing, screenshot_surface, target_file, clipboard,
                   last_export,
                   capture_vars, pixel_vars, front_vars>>

(* The slider is moved to another value: value-changed hands it to set_thickness *)
ThicknessChanged ==
    /\ ncalls < MaxCalls
    /\ \E thickness \in ThicknessInputs :
        /\ thickness # thickness_scale
        /\ thickness_scale' = thickness
        /\ set_thickness(thickness)
        /\ Track("set_thickness", <<thickness>>, "thickness_changed")
    /\ queue_draw
    /\ UNCHANGED <<status, is_drawing, screenshot_surface, target_file, clipboard,
                   last_export,
                   capture_vars, pixel_vars, process_vars, mapping_vars, draw_vars>>

(* gesture_click.connect_pressed: is_drawing = true, then start_stroke *)
Pressed ==
    /\ ncalls < MaxCalls
    /\ \E point \in PointInputs :
        /\ is_drawing' = TRUE
        /\ start_stroke(point)
        /\ Track("start_stroke", <<point>>, "pressed")
    /\ queue_draw
    /\ UNCHANGED <<status, screenshot_surface, target_file, clipboard, last_export,
                   capture_vars, pixel_vars, front_vars>>

(* gesture_click.connect_released *)
Released ==
    /\ ncalls < MaxCalls
    /\ IF is_drawing
       THEN /\ finish_stroke
            /\ Track("finish_stroke", <<>>, "released")
            /\ is_drawing' = FALSE
            /\ queue_draw
       ELSE /\ NoCall("released")
            /\ UNCHANGED <<is_drawing, canvas>>
    /\ UNCHANGED <<status, screenshot_surface, target_file, clipboard, last_export,
                   capture_vars, pixel_vars, front_vars>>

(* motion_controller.connect_motion *)
Motion ==
    /\ ncalls < MaxCalls
    /\ \E point \in PointInputs :
        IF is_drawing
        THEN /\ add_point_to_stroke(point)
             /\ Track("add_point_to_stroke", <<point>>, "motion")
             /\ queue_draw
        ELSE /\ NoCall("motion")
             /\ UNCHANGED canvas
    /\ UNCHANGED <<status, is_drawing, screenshot_surface, target_file, clipboard,
                   last_export,
                   capture_vars, pixel_vars, front_vars>>

KeyInputs == {"Escape", "Control+z"}

(* Variant of the key handler whose Escape keeps the stroke *)
key_pressed_finish(key) ==
    IF key = "Escape" /\ is_drawing
    THEN /\ finish_stroke
         /\ Track("cancel_stroke", <<>>, key)
         /\ is_drawing' = FALSE
         /\ queue_draw
    ELSE /\ NoCall(key)
         /\ UNCHANGED <<is_drawing, canvas>>

(* key_controller.connect_key_pressed; the call record names the key *)
key_pressed(key) ==
    IF key = "Escape" /\ is_drawing
    THEN /\ cancel_stroke
         /\ Track("cancel_stroke", <<>>, key)
         /\ is_drawing' = FALSE
         /\ queue_draw
    ELSE /\ NoCall(key)
         /\ UNCHANGED <<is_drawing, canvas>>

KeyPressed ==
    /\ ncalls < MaxCalls
    /\ \E key \in KeyInputs : key_pressed(key)
    /\ UNCHANGED <<status, screenshot_surface, target_file, clipboard, last_export,
                   capture_vars, pixel_vars, front_vars>>

----------------------------------------------------------------------------
(* The annotation editor: export (editor.rs handle_save_action,
   handle_copy_action, render_to_file_static, copy_to_clipboard_static) *)

(* The fallible steps made before draw_all is reached *)
RenderFailPoints == {"create_surface", "create_context", "set_source_surface", "paint"}

(* img.save(path) writes at the chosen path itself: it can fail before the
   file is created (save_open) or after, while encoding or writing (save_write) *)
SaveFailPoints == RenderFailPoints \cup {"save_open", "save_write"}

CopyFailPoints == RenderFailPoints \cup {"clipboard_new", "set_image"}

SaveResponses == {"accept", "no_file", "no_path", "cancel"}

(* What has been painted on the render surface when the export stops at fail *)
rendered(fail) == IF fail \in RenderFailPoints THEN <<>> ELSE export_ops

(* The call record of an export that stops at fail *)
Rendering(fail, via) ==
    IF fail \in RenderFailPoints THEN NoCall(via) ELSE Observe(via)

(* render_to_file_static: the file left at the path *)
render_to_file_static(fail) ==
    target_file' = CASE fail = "none"       -> Some("exported")
                     [] fail = "save_write" -> Some("partial")
                     [] OTHER               -> target_file

(* The response handler of the save dialog *)
handle_save_action(response, fail) ==
    CASE response = "accept" ->
            /\ render_to_file_static(fail)
            /\ Rendering(fail, "save")
            /\ status' = IF fail = "none"
                         THEN <<"Saved to {}", "path">>
                         ELSE <<"Error saving file: {}", fail>>
            /\ last_export' = Some([via |-> "save", fail |-> fail,
                                    ops |-> rendered(fail), before |-> target_file])
      [] response \in {"no_file", "no_path"} ->
            /\ status' = IF response = "no_path"
                         THEN <<"Error: No path selected">>
                         ELSE <<"Error: No file selected">>
            /\ NoCall(response)
            /\ UNCHANGED <<target_file, last_export>>
      [] OTHER ->
            /\ NoCall(response)
            /\ UNCHANGED <<status, target_file, last_export>>

SaveResponse ==
    /\ ncalls < MaxCalls
    /\ \E response \in SaveResponses :
        IF response = "accept"
        THEN \E fail \in SaveFailPoints \cup {"none"} :
                /\ fail \in {"set_source_surface", "paint"} => screenshot_surface # None
                /\ handle_save_action(response, fail)
        ELSE handle_save_action(response, "none")
    /\ UNCHANGED <<is_drawing, screenshot_surface, canvas, clipboard,
                   capture_vars, pixel_vars, front_vars>>

(* copy_to_clipboard_static: the image left on the clipboard *)
copy_to_clipboard_static(fail) ==
    clipboard' = IF fail = "none" THEN Some("exported") ELSE clipboard

(* handle_copy_action *)
handle_copy_action(fail) ==
    /\ copy_to_clipboard_static(fail)
    /\ Rendering(fail, "copy")
    /\ status' = IF fail = "none"
                 THEN <<"Copied to clipboard">>
                 ELSE <<"Error copying to clipboard">>
    /\ last_export' = Some([via |-> "copy", fail |-> fail,
                            ops |-> rendered(fail), before |-> clipboard])

CopyClicked ==
    /\ ncalls < MaxCalls
    /\ \E fail \in CopyFailPoints \cup {"none"} :
        /\ fail \in {"set_source_surface", "paint"} => screenshot_surface # None
        /\ handle_copy_action(fail)
    /\ UNCHANGED <<is_drawing, screenshot_surface, canvas, target_file,
                   capture_vars, pixel_vars, front_vars>>

(* The editor after AnnotationEditor::new and show(): the tools as constructed,
   a loaded screenshot, and whatever is at the save path and on the clipboard *)
InitEditor ==
    /\ current_tool = "Pencil"
    /\ current_color = Red
    /\ current_thickness = 3
    /\ strokes = <<>>
    /\ current_stroke = None
    /\ info_log = <<>>
    /\ status = <<"Ready - Select a tool and start annotating">>
    /\ call = [op |-> "new", args |-> <<>>, ret |-> Unit, via |-> "new"]
    /\ hist = <<>>
    /\ snap = None
    /\ prev = Fields("Pencil", Red, 3, <<>>, None)
    /\ ncalls = 0
    /\ is_drawing = FALSE
    /\ screenshot_surface = Some("screenshot")
    /\ canvas = <<>>
    /\ target_file \in {None, Some("previous")}
    /\ clipboard \in {None, Some("previous")}
    /\ last_export = None
    /\ EditorOpened
    /\ PixelsIdle
    /\ FrontIdle

NextEditor ==
    \/ ToolChanged
    \/ ColorChanged
    \/ ThicknessChanged
    \/ Pressed
    \/ Released
    \/ Motion
    \/ KeyPressed
    \/ ClearClicked
    \/ DrawFunc

SpecEditor == InitEditor /\ [][NextEditor]_vars

(* Drawing strokes with the pointer, then rendering: redraw, save and copy *)
NextRender ==
    \/ Pressed
    \/ Released
    \/ DrawFunc
    \/ SaveResponse
    \/ CopyClicked

SpecRender == InitEditor /\ [][NextRender]_vars

----------------------------------------------------------------------------
(* The capture window and its three capture paths (main.rs) *)

MaxCaptures == 2

(* What a blocking capture call can return: PNG bytes that decode, bytes that
   AnnotationEditor::new cannot load, or an error *)
CaptureResults == {"png", "corrupt", "error"}

NoOp == [path |-> "none", sent |-> 0, received |-> 0, editors |-> 0, dialogs |-> 0,
         result |-> "none"]

(* The capture window as build_capture_ui presents it *)
InitCapture ==
    /\ current_tool = "Pencil"
    /\ current_color = Red
    /\ current_thickness = 3
    /\ strokes = <<>>
    /\ current_stroke = None
    /\ info_log = <<>>
    /\ status = <<"Ready">>
    /\ call = [op |-> "new", args |-> <<>>, ret |-> Unit, via |-> "new"]
    /\ hist = <<>>
    /\ snap = None
    /\ prev = Fields("Pencil", Red, 3, <<>>, None)
    /\ ncalls = 0
    /\ is_drawing = FALSE
    /\ screenshot_surface = None
    /\ canvas = <<>>
    /\ target_file = None
    /\ clipboard = None
    /\ last_export = None
    /\ window = [visible |-> TRUE, closed |-> FALSE]
    /\ stage = "main"
    /\ worker = "none"
    /\ channel = <<>>
    /\ timer = "none"
    /\ dialog = None
    /\ captures = <<>>
    /\ capture_op = NoOp
    /\ png = None
    /\ ncaptures = 0
    /\ PixelsIdle
    /\ FrontIdle

(* The capture window takes input: shown, not closed, no modal dialog over it *)
CanClick ==
    /\ stage = "main"
    /\ dialog = None
    /\ window.visible
    /\ ~window.closed

window_close == window' = [visible |-> FALSE, closed |-> TRUE]

set_visible(visible) == window' = [window EXCEPT !.visible = visible]

show_error_dialog(message) == dialog' = Some(message)

(* proceed_with_screenshot: spawn the worker and start the polling timer *)
proceed_with_screenshot(path) ==
    /\ worker' = "sleeping"
    /\ channel' = <<>>
    /\ timer' = "active"
    /\ capture_op' = [NoOp EXCEPT !.path = path]
    /\ stage' = "waiting"

(* capture_button: start_screenshot_capture(app, window, false) *)
CaptureClicked ==
    /\ CanClick
    /\ ncaptures < MaxCaptures
    /\ ncaptures' = ncaptures + 1
    /\ set_visible(FALSE)
    /\ proceed_with_screenshot("full")
    /\ UNCHANGED <<dialog, captures, png, annotation_vars, editor_vars, pixel_vars, front_vars>>

(* The thread's sleep of 500 ms ends *)
WorkerWake ==
    /\ worker = "sleeping"
    /\ worker' = "capturing"
    /\ UNCHANGED <<window, stage, channel, timer, dialog, captures, capture_op, png,
                   ncaptures, annotation_vars, editor_vars, pixel_vars, front_vars>>

(* take_screenshot_sync returns and the thread sends the result and ends *)
WorkerCapture ==
    /\ worker = "capturing"
    /\ \E result \in CaptureResults :
        channel' = Append(channel, result)
    /\ captures' = Append(captures, [kind |-> capture_op.path, thread |-> "worker"])
    /\ capture_op' = [capture_op EXCEPT !.sent = @ + 1]
    /\ worker' = "done"
    /\ UNCHANGED <<window, stage, timer, dialog, png, ncaptures, annotation_vars,
                   editor_vars, pixel_vars, front_vars>>

(* The capture call panics: the thread ends and drops the sender unused *)
WorkerDies ==
    /\ worker = "capturing"
    /\ captures' = Append(captures, [kind |-> capture_op.path, thread |-> "worker"])
    /\ worker' = "dead"
    /\ UNCHANGED <<window, stage, channel, timer, dialog, capture_op, png, ncaptures,
                   annotation_vars, editor_vars, pixel_vars, front_vars>>

(* Variant of the timer that keeps polling after a result or a disconnect *)
after_delivery_continue == "active"

(* glib::ControlFlow::Break once a result or a disconnect has been seen *)
after_delivery == "stopped"

(* Variant of the failure branches that leaves the capture window hidden *)
capture_failed_hidden(from, message) ==
    /\ UNCHANGED window
    /\ show_error_dialog(message)
    /\ capture_op' = [from EXCEPT !.dialogs = @ + 1, !.result = "capture_failed"]
    /\ stage' = "main"

(* A failed capture: window.set_visible(true) and the modal dialog *)
capture_failed(from, message) ==
    /\ set_visible(TRUE)
    /\ show_error_dialog(message)
    /\ capture_op' = [from EXCEPT !.dialogs = @ + 1, !.result = "capture_failed"]
    /\ stage' = "main"

(* parent_window.close() and AnnotationEditor::new(&app, data) as the window
   path does it: on Err the dialog, then parent_window.set_visible(true) *)
open_editor_window(from, data) ==
    IF data = "png"
    THEN /\ window_close
         /\ capture_op' = [from EXCEPT !.editors = @ + 1, !.result = "editor"]
         /\ stage' = "editor"
         /\ UNCHANGED dialog
    ELSE /\ window' = [visible |-> TRUE, closed |-> TRUE]
         /\ capture_op' = [from EXCEPT !.dialogs = @ + 1, !.result = "decode_failed"]
         /\ stage' = "closed"
         /\ show_error_dialog("Failed to open editor")

(* window.close() and AnnotationEditor::new(&app, data) as the full-screen and
   cropped paths do it: the editor is shown, or on Err the dialog alone *)
open_editor(from, data) ==
    /\ window_close
    /\ IF data = "png"
       THEN /\ capture_op' = [from EXCEPT !.editors = @ + 1, !.result = "editor"]
            /\ stage' = "editor"
            /\ UNCHANGED dialog
       ELSE /\ capture_op' = [from EXCEPT !.dialogs = @ + 1, !.result = "decode_failed"]
            /\ stage' = "closed"
            /\ show_error_dialog("Failed to open editor")

(* The timeout callback of proceed_with_screenshot: receiver.try_recv() *)
timer_tick ==
    IF channel # <<>>
    THEN /\ channel' = Tail(channel)
         /\ timer' = after_delivery
         /\ IF Head(channel) = "error"
            THEN capture_failed([capture_op EXCEPT !.received = @ + 1],
                                "Failed to capture screenshot")
            ELSE open_editor([capture_op EXCEPT !.received = @ + 1], Head(channel))
    ELSE IF worker \in {"done", "dead"}
    THEN /\ timer' = after_delivery
         /\ capture_failed(capture_op, "Screenshot capture failed unexpectedly")
         /\ UNCHANGED channel
    ELSE UNCHANGED <<window, stage, channel, timer, dialog, capture_op>>

TimerTick ==
    /\ timer = "active"
    /\ timer_tick
    /\ UNCHANGED <<worker, captures, png, ncaptures, annotation_vars, editor_vars, pixel_vars, front_vars>>

(* rect_button: start_screenshot_capture(app, window, true) hides the window
   and schedules the preview *)
RectClicked ==
    /\ CanClick
    /\ ncaptures < MaxCaptures
    /\ ncaptures' = ncaptures + 1
    /\ set_visible(FALSE)
    /\ stage' = "preview_wait"
    /\ capture_op' = [NoOp EXCEPT !.path = "selection"]
    /\ UNCHANGED <<worker, channel, timer, dialog, captures, png, annotation_vars,
                   editor_vars, pixel_vars, front_vars>>

(* The 100 ms timeout of show_rectangle_selection: the preview capture runs in
   the callback, then the overlay is shown; a failed preview keeps no PNG data *)
PreviewTimeout ==
    /\ stage = "preview_wait"
    /\ captures' = Append(captures, [kind |-> "preview", thread |-> "ui"])
    /\ \E data \in {None, Some("png")} : png' = data
    /\ stage' = "overlay"
    /\ UNCHANGED <<window, worker, channel, timer, dialog, capture_op, ncaptures,
                   annotation_vars, editor_vars, pixel_vars, front_vars>>

(* The overlay's release handler: a selection larger than 10x10 is cropped out
   of the preview data, or captured afresh; a smaller one returns to the window *)
OverlayReleased ==
    /\ stage = "overlay"
    /\ \E large \in BOOLEAN, cropped \in {"png", "corrupt", "error"} :
        IF ~large
        THEN /\ set_visible(TRUE)
             /\ stage' = "main"
             /\ UNCHANGED <<worker, channel, timer, dialog, capture_op>>
        ELSE IF png # None /\ cropped # "error"
        THEN /\ open_editor([NoOp EXCEPT !.path = "cropped"], cropped)
             /\ UNCHANGED <<worker, channel, timer>>
        ELSE /\ proceed_with_screenshot("region")
             /\ UNCHANGED <<window, dialog>>
    /\ UNCHANGED <<captures, png, ncaptures, annotation_vars, editor_vars, pixel_vars, front_vars>>

(* Escape on the overlay *)
OverlayEscape ==
    /\ stage = "overlay"
    /\ set_visible(TRUE)
    /\ stage' = "main"
    /\ UNCHANGED <<worker, channel, timer, dialog, captures, capture_op, png, ncaptures,
                   annotation_vars, editor_vars, pixel_vars, front_vars>>

(* What start_window_selection_capture finds: a window list, or no window
   manager, no list, or an empty list *)
WindowListings == {"windows", "no_manager", "list_failed", "empty"}

(* window_button: start_window_selection_capture *)
WindowClicked ==
    /\ CanClick
    /\ ncaptures < MaxCaptures
    /\ ncaptures' = ncaptures + 1
    /\ \E listing \in WindowListings :
        IF listing = "windows"
        THEN /\ set_visible(FALSE)
             /\ stage' = "window_dialog"
             /\ capture_op' = [NoOp EXCEPT !.path = "window"]
             /\ UNCHANGED dialog
        ELSE capture_failed([NoOp EXCEPT !.path = "window"], listing)
    /\ UNCHANGED <<worker, channel, timer, captures, png, annotation_vars, editor_vars, pixel_vars, front_vars>>

(* Cancel or close of the window selection dialog *)
WindowDialogCancel ==
    /\ stage = "window_dialog"
    /\ set_visible(TRUE)
    /\ stage' = "main"
    /\ UNCHANGED <<worker, channel, timer, dialog, captures, capture_op, png, ncaptures,
                   annotation_vars, editor_vars, pixel_vars, front_vars>>

(* A window is chosen: proceed_with_window_capture calls capture_window in the
   handler itself *)
proceed_with_window_capture(result) ==
    /\ captures' = Append(captures, [kind |-> "window", thread |-> "ui"])
    /\ IF result = "error"
       THEN capture_failed(capture_op, "Failed to capture window")
       ELSE open_editor_window(capture_op, result)

WindowChosen ==
    /\ stage = "window_dialog"
    /\ \E result \in CaptureResults : proceed_with_window_capture(result)
    /\ UNCHANGED <<worker, channel, timer, png, ncaptures, annotation_vars, editor_vars,
                   pixel_vars, front_vars>>

(* The response handler of the error dialog closes it *)
DialogResponse ==
    /\ dialog # None
    /\ dialog' = None
    /\ UNCHANGED <<window, stage, worker, channel, timer, captures, capture_op, png,
                   ncaptures, annotation_vars, editor_vars, pixel_vars, front_vars>>

(* Escape on the capture window closes it *)
WindowEscape ==
    /\ CanClick
    /\ window_close
    /\ stage' = "closed"
    /\ UNCHANGED <<worker, channel, timer, dialog, captures, capture_op, png, ncaptures,
                   annotation_vars, editor_vars, pixel_vars, front_vars>>

NextCapture ==
    \/ CaptureClicked
    \/ RectClicked
    \/ WindowClicked
    \/ WindowEscape
    \/ PreviewTimeout
    \/ OverlayReleased
    \/ OverlayEscape
    \/ WindowDialogCancel
    \/ WindowChosen
    \/ WorkerWake
    \/ WorkerCapture
    \/ WorkerDies
    \/ TimerTick
    \/ DialogResponse

SpecCapture == InitCapture /\ [][NextCapture]_vars

(* The thread runs once spawned, and the main loop fires the timeout *)
SpecCaptureFair ==
    /\ SpecCapture
    /\ WF_vars(WorkerWake)
    /\ WF_vars(WorkerCapture \/ WorkerDies)
    /\ WF_vars(TimerTick)

----------------------------------------------------------------------------
(* The drawing of one stroke: DrawingStroke::draw (tools.rs) *)

MaxPoints == 3

(* The point sequences of up to MaxPoints points *)
PointSeqs == UNION {[1..n -> PointInputs] : n \in 0..MaxPoints}

(* One call made on the cairo context, with its arguments *)
Cairo(kind, how) == [kind |-> kind, what |-> how]

RECURSIVE line_to_each(_)
(* The loop `for point in self.points.iter().skip(1)` *)
line_to_each(points) ==
    IF points = <<>> THEN <<>>
    ELSE <<Cairo("line_to", Head(points))>> \o line_to_each(Tail(points))

(* draw_pencil: the polyline through all the points *)
draw_pencil(stroke) ==
    <<Cairo("set_line_width", stroke.thickness), Cairo("set_line_cap", "Round"),
      Cairo("set_line_join", "Round")>>
        \o (IF stroke.points # <<>>
            THEN <<Cairo("move_to", Head(stroke.points))>>
                    \o line_to_each(Tail(stroke.points)) \o <<Cairo("stroke", Unit)>>
            ELSE <<>>)

(* draw_line: the segment from the first point to the last *)
draw_line(stroke) ==
    IF Len(stroke.points) >= 2
    THEN <<Cairo("set_line_width", stroke.thickness), Cairo("set_line_cap", "Round"),
           Cairo("move_to", stroke.points[1]),
           Cairo("line_to", stroke.points[Len(stroke.points)]),
           Cairo("stroke", Unit)>>
    ELSE <<>>

(* arrow_x1, arrow_y1 and arrow_x2, arrow_y2: the end of a barb, arrow_length
   back from the tip and 30 degrees to one side of the shaft *)
barb(side, start, end, arrow_length) ==
    [side |-> side, tip |-> end, dx |-> end.x - start.x, dy |-> end.y - start.y,
     arrow_length |-> arrow_length]

(* Variant of draw_arrowhead without the check of the length *)
draw_arrowhead_unchecked(stroke, start, end) ==
    LET arrow_length == stroke.thickness * 3
    IN  <<Cairo("move_to", end), Cairo("line_to", barb(1, start, end, arrow_length)),
          Cairo("move_to", end), Cairo("line_to", barb(2, start, end, arrow_length)),
          Cairo("stroke", Unit)>>

(* draw_arrowhead: nothing for a shaft of length 0 (the square root of
   dx*dx + dy*dy is 0 exactly when the sum is), else the two barbs *)
draw_arrowhead(stroke, start, end) ==
    LET arrow_length == stroke.thickness * 3
        dx == end.x - start.x
        dy == end.y - start.y
    IN  IF dx * dx + dy * dy = 0
        THEN <<>>
        ELSE <<Cairo("move_to", end), Cairo("line_to", barb(1, start, end, arrow_length)),
               Cairo("move_to", end), Cairo("line_to", barb(2, start, end, arrow_length)),
               Cairo("stroke", Unit)>>

(* draw_arrow: the shaft from the first point to the last, then the head *)
draw_arrow(stroke) ==
    IF Len(stroke.points) >= 2
    THEN LET start == stroke.points[1]
             end == stroke.points[Len(stroke.points)]
         IN  <<Cairo("set_line_width", stroke.thickness), Cairo("set_line_cap", "Round"),
               Cairo("move_to", start), Cairo("line_to", end), Cairo("stroke", Unit)>>
                \o draw_arrowhead(stroke, start, end)
    ELSE <<>>

(* draw_highlighter: the polyline again, in the colour at alpha 0.3 (30 %) *)
draw_highlighter(stroke) ==
    <<Cairo("set_line_width", stroke.thickness), Cairo("set_line_cap", "Round"),
      Cairo("set_line_join", "Round"),
      Cairo("set_source_rgba", <<stroke.color[1], stroke.color[2], stroke.color[3], 30>>)>>
        \o (IF stroke.points # <<>>
            THEN <<Cairo("move_to", Head(stroke.points))>>
                    \o line_to_each(Tail(stroke.points)) \o <<Cairo("stroke", Unit)>>
            ELSE <<>>)

(* DrawingStroke::draw: the calls it makes on the context, in order *)
draw(stroke) ==
    IF stroke.points = <<>> THEN <<>>
    ELSE <<Cairo("save", Unit), Cairo("set_source_rgba", stroke.color)>>
            \o (CASE stroke.tool_type = "Pencil"      -> draw_pencil(stroke)
                  [] stroke.tool_type = "Line"        -> draw_line(stroke)
                  [] stroke.tool_type = "Arrow"       -> draw_arrow(stroke)
                  [] stroke.tool_type = "Highlighter" -> draw_highlighter(stroke))
            \o <<Cairo("restore", Unit)>>

(* A stroke of any tool, with any of the point sequences, is to be drawn *)
InitDraw ==
    /\ current_tool = "Pencil"
    /\ current_color = Red
    /\ current_thickness = 3
    /\ strokes = <<>>
    /\ current_stroke = None
    /\ info_log = <<>>
    /\ status = <<"Ready">>
    /\ call = [op |-> "new", args |-> <<>>, ret |-> Unit, via |-> "new"]
    /\ hist = <<>>
    /\ snap = None
    /\ prev = Fields("Pencil", Red, 3, <<>>, None)
    /\ ncalls = 0
    /\ is_drawing = FALSE
    /\ screenshot_surface = Some("screenshot")
    /\ canvas = <<>>
    /\ target_file = None
    /\ clipboard = None
    /\ last_export = None
    /\ EditorOpened
    /\ PixelsIdle
    /\ argv = <<>>
    /\ stdout = <<>>
    /\ exit_code = None
    /\ pointer = <<>>
    /\ pressed_point = <<>>
    /\ motion_point = <<>>
    /\ coordinates = <<>>
    /\ drawn_point = <<>>
    /\ \E tool_type \in ToolType, color \in ColorInputs, points \in PointSeqs :
           stroke_arg = [DrawingStroke_new(tool_type, color, default_thickness(tool_type))
                            EXCEPT !.points = points]
    /\ ctx = None
    /\ thickness_scale = 3

(* The stroke is drawn on a context in good standing: every stroke() returns
   Ok and its unwrap passes *)
Draw ==
    /\ ctx = None
    /\ ctx' = Some([calls |-> draw(stroke_arg), error |-> None])
    /\ UNCHANGED <<stroke_arg, process_vars, mapping_vars, thickness_scale,
                   annotation_vars, editor_vars, capture_vars, pixel_vars>>

NextDraw == Draw

SpecDraw == InitDraw /\ [][NextDraw]_vars

----------------------------------------------------------------------------
(* The process: main (main.rs) *)

(* The command lines the program is started with: none, and the one flag *)
ArgInputs == {<<>>, <<"--test">>}

(* main before app.run(): the logger is set up and activate is connected *)
InitMain ==
    /\ current_tool = "Pencil"
    /\ current_color = Red
    /\ current_thickness = 3
    /\ strokes = <<>>
    /\ current_stroke = None
    /\ info_log = <<>>
    /\ status = <<"Ready">>
    /\ call = [op |-> "new", args |-> <<>>, ret |-> Unit, via |-> "new"]
    /\ hist = <<>>
    /\ snap = None
    /\ prev = Fields("Pencil", Red, 3, <<>>, None)
    /\ ncalls = 0
    /\ is_drawing = FALSE
    /\ screenshot_surface = None
    /\ canvas = <<>>
    /\ target_file = None
    /\ clipboard = None
    /\ last_export = None
    /\ window = [visible |-> FALSE, closed |-> FALSE]
    /\ stage = "launch"
    /\ worker = "none"
    /\ channel = <<>>
    /\ timer = "none"
    /\ dialog = None
    /\ captures = <<>>
    /\ capture_op = NoOp
    /\ png = None
    /\ ncaptures = 0
    /\ PixelsIdle
    /\ argv \in ArgInputs
    /\ stdout = <<>>
    /\ exit_code = None
    /\ pointer = <<>>
    /\ pressed_point = <<>>
    /\ motion_point = <<>>
    /\ coordinates = <<>>
    /\ drawn_point = <<>>
    /\ stroke_arg = <<>>
    /\ ctx = <<>>
    /\ thickness_scale = 3

(* app.run() and what follows it. main reads no argument itself: the command
   line goes to the application object, which either activates (and
   build_capture_ui presents the capture window) or, for an argument it does
   not know, returns a failure status that main exits with. Nothing is printed
   on standard output either way. *)
AppRun ==
    /\ stage = "launch"
    /\ \/ /\ window' = [visible |-> TRUE, closed |-> FALSE]
          /\ stage' = "main"
          /\ UNCHANGED exit_code
       \/ /\ argv # <<>>
          /\ exit_code' = Some(1)
          /\ stage' = "exited"
          /\ UNCHANGED window
    /\ UNCHANGED <<worker, channel, timer, dialog, captures, capture_op, png, ncaptures,
                   argv, stdout, mapping_vars, draw_vars, thickness_scale,
                   annotation_vars, editor_vars, pixel_vars>>

NextMain ==
    \/ AppRun
    \/ NextCapture

SpecMain == InitMain /\ [][NextMain]_vars

----------------------------------------------------------------------------
(* The pixel conversions: load_image_data and the export loop (editor.rs) *)

MaxDim == 2

(* RGBA8 pixels with four different channel values; the second is translucent *)
PixelInputs == {<<10, 20, 30, 255>>, <<200, 100, 50, 128>>}

(* Strides the surface may be given for a width: short by a pixel, tight, and
   padded by a pixel *)
StrideInputs(width) == {width * 4 - 4, width * 4, width * 4 + 4}

(* Strides cairo gives a surface it creates itself *)
RenderStrideInputs(width) == {width * 4, width * 4 + 4}

(* rgba_image.get_pixel(x, y) *)
get_pixel(x, y) == rgba_image.pixels[y * rgba_image.width + x + 1]

(* vec![0u8; n] *)
zeroed(n) == [i \in 1..n |-> 0]

(* Variant of the destination index that assumes tightly packed rows *)
dst_index_packed(x, y) == y * rgba_image.width * 4 + x * 4

(* dst_idx = y * stride + x * 4 *)
dst_index(x, y) == y * stride + x * 4

(* The four assignments surface_data[dst_idx + k]: B, G, R, A *)
store_pixel(buf, dst_idx, src_pixel) ==
    [data |-> [i \in 1..Len(buf.data) |->
                  CASE i = dst_idx + 1 -> src_pixel[3]
                    [] i = dst_idx + 2 -> src_pixel[2]
                    [] i = dst_idx + 3 -> src_pixel[1]
                    [] i = dst_idx + 4 -> src_pixel[4]
                    [] OTHER           -> buf.data[i]],
     written |-> buf.written \cup {dst_idx, dst_idx + 1, dst_idx + 2, dst_idx + 3}]

RECURSIVE load_row(_, _, _)
(* The loop `for x in 0..width` from column x on: the guard, and its break *)
load_row(buf, x, y) ==
    IF x >= rgba_image.width THEN buf
    ELSE IF dst_index(x, y) + 3 < Len(buf.data)
    THEN load_row(store_pixel(buf, dst_index(x, y), get_pixel(x, y)), x + 1, y)
    ELSE buf

RECURSIVE load_rows(_, _)
(* The loop `for y in 0..height` from row y on *)
load_rows(buf, y) ==
    IF y >= rgba_image.height THEN buf
    ELSE load_rows(load_row(buf, 0, y), y + 1)

(* The conversion of load_image_data: the filled buffer and the offsets written *)
converted ==
    load_rows([data |-> zeroed(stride * rgba_image.height), written |-> {}], 0)

(* An image has been decoded and the stride asked for *)
InitPixels ==
    /\ current_tool = "Pencil"
    /\ current_color = Red
    /\ current_thickness = 3
    /\ strokes = <<>>
    /\ current_stroke = None
    /\ info_log = <<>>
    /\ status = <<"Ready">>
    /\ call = [op |-> "new", args |-> <<>>, ret |-> Unit, via |-> "new"]
    /\ hist = <<>>
    /\ snap = None
    /\ prev = Fields("Pencil", Red, 3, <<>>, None)
    /\ ncalls = 0
    /\ is_drawing = FALSE
    /\ screenshot_surface = None
    /\ canvas = <<>>
    /\ target_file = None
    /\ clipboard = None
    /\ last_export = None
    /\ EditorOpened
    /\ \E width \in 1..MaxDim, height \in 1..MaxDim :
        /\ \E pixels \in [1..(width * height) -> PixelInputs] :
            rgba_image = [width |-> width, height |-> height, pixels |-> pixels]
        /\ stride \in StrideInputs(width)
        /\ render_stride \in RenderStrideInputs(width)
    /\ surface_data = <<>>
    /\ written = {}
    /\ render_data = <<>>
    /\ rgba_data = <<>>
    /\ px_stage = "decoded"
    /\ CropIdle
    /\ FrontIdle

(* load_image_data from the stride on: fill the buffer, then create the
   surface over it, which cairo refuses for a stride shorter than a row *)
LoadImageData ==
    /\ px_stage = "decoded"
    /\ surface_data' = converted.data
    /\ written' = converted.written
    /\ IF stride >= rgba_image.width * 4
       THEN /\ screenshot_surface' = Some("screenshot")
            /\ px_stage' = "loaded"
       ELSE /\ px_stage' = "load_failed"
            /\ UNCHANGED screenshot_surface
    /\ UNCHANGED <<rgba_image, stride, render_stride, render_data, rgba_data, crop_vars,
                   is_drawing, canvas, target_file, clipboard, last_export,
                   annotation_vars, capture_vars, front_vars>>

(* Cairo's OVER on one byte: source plus destination scaled by the
   source's transparency, saturating *)
over(src, dst, alpha) ==
    LET sum == src + (dst * (255 - alpha)) \div 255
    IN  IF sum > 255 THEN 255 ELSE sum

(* set_source_surface(screenshot, 0, 0) and paint() onto the render surface:
   every byte of a pixel is composited, row padding is left alone *)
paint(dst) ==
    [i \in 1..Len(dst) |->
        LET y == (i - 1) \div render_stride
            x == ((i - 1) % render_stride) \div 4
            k == ((i - 1) % render_stride) % 4
            src_idx == y * stride + x * 4
        IN  IF x < rgba_image.width
            THEN over(surface_data[src_idx + k + 1], dst[i], surface_data[src_idx + 4])
            ELSE dst[i]]

(* render_to_file_static up to the export loop, with no annotations: a zeroed
   render surface, the screenshot painted at 1:1, draw_all drawing nothing *)
RenderSurface ==
    /\ px_stage = "loaded"
    /\ strokes = <<>>
    /\ current_stroke = None
    /\ render_data' = paint(zeroed(render_stride * rgba_image.height))
    /\ px_stage' = "painted"
    /\ UNCHANGED <<rgba_image, stride, surface_data, written, render_stride, rgba_data,
                   crop_vars, annotation_vars, editor_vars, capture_vars, front_vars>>

(* Variant of the export that copies the bytes in surface order *)
export_pixel_no_swap(data, pixel_offset) ==
    <<data[pixel_offset + 1], data[pixel_offset + 2], data[pixel_offset + 3],
      data[pixel_offset + 4]>>

(* b, g, r, a read at pixel_ptr + 0..3 and [r, g, b, a] appended *)
export_pixel(data, pixel_offset) ==
    <<data[pixel_offset + 3], data[pixel_offset + 2], data[pixel_offset + 1],
      data[pixel_offset + 4]>>

RECURSIVE export_row(_, _, _)
(* The export's loop `for x in 0..width` from column x on *)
export_row(out, x, y) ==
    IF x >= rgba_image.width THEN out
    ELSE export_row(out \o export_pixel(render_data, y * render_stride + x * 4), x + 1, y)

RECURSIVE export_rows(_, _)
(* The export's loop `for y in 0..height` from row y on *)
export_rows(out, y) ==
    IF y >= rgba_image.height THEN out
    ELSE export_rows(export_row(out, 0, y), y + 1)

(* The export loop of render_to_file_static and copy_to_clipboard_static *)
ExportLoop ==
    /\ px_stage = "painted"
    /\ rgba_data' = export_rows(<<>>, 0)
    /\ px_stage' = "exported"
    /\ UNCHANGED <<rgba_image, stride, surface_data, written, render_stride, render_data,
                   crop_vars, annotation_vars, editor_vars, capture_vars, front_vars>>

NextPixels ==
    \/ LoadImageData
    \/ RenderSurface
    \/ ExportLoop

SpecPixels == InitPixels /\ [][NextPixels]_vars

(* What the decoder may hand to load_image_data when nothing upstream has
   checked the dimensions: the images of InitPixels and the zero-area ones *)
InitDecoded ==
    /\ current_tool = "Pencil"
    /\ current_color = Red
    /\ current_thickness = 3
    /\ strokes = <<>>
    /\ current_stroke = None
    /\ info_log = <<>>
    /\ status = <<"Ready">>
    /\ call = [op |-> "new", args |-> <<>>, ret |-> Unit, via |-> "new"]
    /\ hist = <<>>
    /\ snap = None
    /\ prev = Fields("Pencil", Red, 3, <<>>, None)
    /\ ncalls = 0
    /\ is_drawing = FALSE
    /\ screenshot_surface = None
    /\ canvas = <<>>
    /\ target_file = None
    /\ clipboard = None
    /\ last_export = None
    /\ EditorOpened
    /\ \E width \in 0..MaxDim, height \in 0..MaxDim :
        /\ \E pixels \in [1..(width * height) -> PixelInputs] :
            rgba_image = [width |-> width, height |-> height, pixels |-> pixels]
        /\ stride \in StrideInputs(width)
        /\ render_stride \in RenderStrideInputs(width)
    /\ surface_data = <<>>
    /\ written = {}
    /\ render_data = <<>>
    /\ rgba_data = <<>>
    /\ px_stage = "decoded"
    /\ CropIdle
    /\ FrontIdle

SpecDecoded == InitDecoded /\ [][NextPixels]_vars

----------------------------------------------------------------------------
(* The crops: crop_image_region (capture.rs) and crop_png_data_direct (main.rs) *)

(* A decoded capture of the given size; every pixel is told apart by its
   place, row by row *)
screenshot_of(width, height) ==
    [width |-> width, height |-> height, pixels |-> [i \in 1..(width * height) |-> i]]

(* Coordinates and sizes a region may be asked with: before, on and past the
   edges of the largest image, and sizes down to -1 *)
RegionInputs == (0 - 1)..(MaxDim + 1)

(* i32::max and i32::min *)
max(a, b) == IF a >= b THEN a ELSE b

min(a, b) == IF a <= b THEN a ELSE b

(* DynamicImage::crop_imm: the view at (x, y), its size cut down to what the
   image has from there on *)
crop_imm(image, x, y, width, height) ==
    LET vx == min(x, image.width)
        vy == min(y, image.height)
        vheight == min(height, image.height - vy)
        vwidth == min(width, image.width - vx)
    IN  [width  |-> vwidth,
         height |-> vheight,
         pixels |-> [i \in 1..(vwidth * vheight) |->
                        image.pixels[(vy + (i - 1) \div vwidth) * image.width
                                     + vx + ((i - 1) % vwidth) + 1]]]

(* Ok(buffer) of a crop, with the adjusted region its log line reports *)
Cropped(crop_x, crop_y, crop_width, crop_height, buffer) ==
    [ok |-> TRUE, error |-> None, bytes |-> Some(buffer),
     rect |-> <<crop_x, crop_y, crop_width, crop_height>>]

(* Err(anyhow!(message)): an error value and no bytes *)
Err(message) ==
    [ok |-> FALSE, error |-> Some(message), bytes |-> None, rect |-> None]

(* Variant of the region crop that sizes the rectangle from the clamped origin *)
crop_image_region_from_origin(image, x, y, width, height) ==
    LET crop_x == max(x, 0)
        crop_y == max(y, 0)
        crop_width == max(min(width, image.width - crop_x), 1)
        crop_height == max(min(height, image.height - crop_y), 1)
    IN  IF crop_x >= image.width \/ crop_y >= image.height
        THEN Err("Crop region is outside image bounds")
        ELSE Cropped(crop_x, crop_y, crop_width, crop_height,
                     crop_imm(image, crop_x, crop_y, crop_width, crop_height))

(* Variant of the region crop that keeps one column and one row back *)
crop_image_region_short(image, x, y, width, height) ==
    LET crop_x == max(x, 0)
        crop_y == max(y, 0)
        crop_width == max(min(width, image.width - x - 1), 1)
        crop_height == max(min(height, image.height - y - 1), 1)
    IN  IF crop_x >= image.width \/ crop_y >= image.height
        THEN Err("Crop region is outside image bounds")
        ELSE Cropped(crop_x, crop_y, crop_width, crop_height,
                     crop_imm(image, crop_x, crop_y, crop_width, crop_height))

(* ScreenshotCapture::crop_image_region on a decoded image *)
crop_image_region(image, x, y, width, height) ==
    LET crop_x == max(x, 0)
        crop_y == max(y, 0)
        crop_width == max(min(width, image.width - x), 1)
        crop_height == max(min(height, image.height - y), 1)
    IN  IF crop_x >= image.width \/ crop_y >= image.height
        THEN Err("Crop region is outside image bounds")
        ELSE Cropped(crop_x, crop_y, crop_width, crop_height,
                     crop_imm(image, crop_x, crop_y, crop_width, crop_height))

(* Variant of the direct crop that lets a region start on the far edge *)
crop_png_data_direct_edge(image, x, y, width, height) ==
    LET crop_x == max(x, 0)
        crop_y == max(y, 0)
        crop_width == max(min(width, image.width - x), 1)
        crop_height == max(min(height, image.height - y), 1)
    IN  IF crop_x > image.width \/ crop_y > image.height
        THEN Err("Crop region is outside image bounds")
        ELSE Cropped(crop_x, crop_y, crop_width, crop_height,
                     crop_imm(image, crop_x, crop_y, crop_width, crop_height))

(* crop_png_data_direct (main.rs) on a decoded image *)
crop_png_data_direct(image, x, y, width, height) ==
    LET crop_x == max(x, 0)
        crop_y == max(y, 0)
        crop_width == max(min(width, image.width - x), 1)
        crop_height == max(min(height, image.height - y), 1)
    IN  IF crop_x >= image.width \/ crop_y >= image.height
        THEN Err("Crop region is outside image bounds")
        ELSE Cropped(crop_x, crop_y, crop_width, crop_height,
                     crop_imm(image, crop_x, crop_y, crop_width, crop_height))

(* A capture has been decoded and a region of it is asked for *)
InitCrop ==
    /\ current_tool = "Pencil"
    /\ current_color = Red
    /\ current_thickness = 3
    /\ strokes = <<>>
    /\ current_stroke = None
    /\ info_log = <<>>
    /\ status = <<"Ready">>
    /\ call = [op |-> "new", args |-> <<>>, ret |-> Unit, via |-> "new"]
    /\ hist = <<>>
    /\ snap = None
    /\ prev = Fields("Pencil", Red, 3, <<>>, None)
    /\ ncalls = 0
    /\ is_drawing = FALSE
    /\ screenshot_surface = None
    /\ canvas = <<>>
    /\ target_file = None
    /\ clipboard = None
    /\ last_export = None
    /\ window = [visible |-> FALSE, closed |-> FALSE]
    /\ stage = "selection"
    /\ worker = "none"
    /\ channel = <<>>
    /\ timer = "none"
    /\ dialog = None
    /\ captures = <<[kind |-> "preview", thread |-> "ui"]>>
    /\ capture_op = NoOp
    /\ png = Some("png")
    /\ ncaptures = 0
    /\ rgba_image = [width |-> 0, height |-> 0, pixels |-> <<>>]
    /\ stride = 0
    /\ surface_data = <<>>
    /\ written = {}
    /\ render_stride = 0
    /\ render_data = <<>>
    /\ rgba_data = <<>>
    /\ px_stage = "none"
    /\ \E img_width \in 1..MaxDim, img_height \in 1..MaxDim :
       \E x \in RegionInputs, y \in RegionInputs :
       \E width \in RegionInputs, height \in RegionInputs :
           crop_request = [image |-> screenshot_of(img_width, img_height),
                           x |-> x, y |-> y, width |-> width, height |-> height]
    /\ region_result = None
    /\ direct_result = None
    /\ FrontIdle

(* take_screenshot_region_blocking hands the capture to crop_image_region *)
CropImageRegion ==
    /\ region_result = None
    /\ region_result' = Some(crop_image_region(crop_request.image, crop_request.x,
                                crop_request.y, crop_request.width, crop_request.height))
    /\ UNCHANGED <<crop_request, direct_result, rgba_image, stride, surface_data, written,
                   render_stride, render_data, rgba_data, px_stage,
                   annotation_vars, editor_vars, capture_vars, front_vars>>

(* The selection overlay hands its stored PNG to crop_png_data_direct *)
CropPngDataDirect ==
    /\ direct_result = None
    /\ direct_result' = Some(crop_png_data_direct(crop_request.image, crop_request.x,
                                crop_request.y, crop_request.width, crop_request.height))
    /\ UNCHANGED <<crop_request, region_result, rgba_image, stride, surface_data, written,
                   render_stride, render_data, rgba_data, px_stage,
                   annotation_vars, editor_vars, capture_vars, front_vars>>

NextCrop ==
    \/ CropImageRegion
    \/ CropPngDataDirect

SpecCrop == InitCrop /\ [][NextCrop]_vars

----------------------------------------------------------------------------
(* The pointer mapping: display to image space and back (editor.rs) *)

(* The f64 arithmetic of the mapping, done exactly: a number is a fraction
   <<n, d>> in lowest terms with d > 0 *)
Abs(n) == IF n < 0 THEN 0 - n ELSE n

RECURSIVE gcd(_, _)
gcd(a, b) == IF b = 0 THEN a ELSE gcd(b, a % b)

Q(n, d) ==
    LET g == gcd(Abs(n), Abs(d))
        sign == IF d < 0 THEN 0 - 1 ELSE 1
    IN  <<(sign * n) \div g, (sign * d) \div g>>

(* `as f64` of an integer *)
QInt(n) == <<n, 1>>

QAdd(a, b) == Q(a[1] * b[2] + b[1] * a[2], a[2] * b[2])

QSub(a, b) == Q(a[1] * b[2] - b[1] * a[2], a[2] * b[2])

QMul(a, b) == Q(a[1] * b[1], a[2] * b[2])

QDiv(a, b) == Q(a[1] * b[2], a[2] * b[1])

(* f64::min *)
QMin(a, b) == IF a[1] * b[2] <= b[1] * a[2] THEN a ELSE b

QLess(a, b) == a[1] * b[2] < b[1] * a[2]

(* f64::max *)
QMax(a, b) == IF QLess(a, b) THEN b ELSE a

(* Sizes of the drawing area's allocation *)
AreaInputs == 1..(MaxDim + 1)

(* The surface's size, or no surface *)
SurfaceInputs ==
    {None} \cup {Some([width |-> w, height |-> h]) : w \in 1..MaxDim, h \in 1..MaxDim}

(* Variant of the press mapping that keeps the point inside the image *)
pressed_to_image_clamped(surface, area_width, area_height, x, y) ==
    IF surface # None
    THEN LET image_width == QInt(surface[1].width)
             image_height == QInt(surface[1].height)
             scale_x == QDiv(QInt(area_width), image_width)
             scale_y == QDiv(QInt(area_height), image_height)
             scale == QMin(scale_x, scale_y)
             scaled_width == QMul(image_width, scale)
             scaled_height == QMul(image_height, scale)
             offset_x == QDiv(QSub(QInt(area_width), scaled_width), QInt(2))
             offset_y == QDiv(QSub(QInt(area_height), scaled_height), QInt(2))
             image_x == QDiv(QSub(QInt(x), offset_x), scale)
             image_y == QDiv(QSub(QInt(y), offset_y), scale)
         IN  [x |-> QMax(QInt(0), QMin(image_x, image_width)),
              y |-> QMax(QInt(0), QMin(image_y, image_height))]
    ELSE [x |-> QInt(x), y |-> QInt(y)]

(* connect_pressed: screen coordinates to image coordinates *)
pressed_to_image(surface, area_width, area_height, x, y) ==
    IF surface # None
    THEN LET image_width == QInt(surface[1].width)
             image_height == QInt(surface[1].height)
             scale_x == QDiv(QInt(area_width), image_width)
             scale_y == QDiv(QInt(area_height), image_height)
             scale == QMin(scale_x, scale_y)
             scaled_width == QMul(image_width, scale)
             scaled_height == QMul(image_height, scale)
             offset_x == QDiv(QSub(QInt(area_width), scaled_width), QInt(2))
             offset_y == QDiv(QSub(QInt(area_height), scaled_height), QInt(2))
             image_x == QDiv(QSub(QInt(x), offset_x), scale)
             image_y == QDiv(QSub(QInt(y), offset_y), scale)
         IN  [x |-> image_x, y |-> image_y]
    ELSE [x |-> QInt(x), y |-> QInt(y)]

(* connect_motion: the same conversion, written out again *)
motion_to_image(surface, area_width, area_height, x, y) ==
    IF surface # None
    THEN LET image_width == QInt(surface[1].width)
             image_height == QInt(surface[1].height)
             scale_x == QDiv(QInt(area_width), image_width)
             scale_y == QDiv(QInt(area_height), image_height)
             scale == QMin(scale_x, scale_y)
             scaled_width == QMul(image_width, scale)
             scaled_height == QMul(image_height, scale)
             offset_x == QDiv(QSub(QInt(area_width), scaled_width), QInt(2))
             offset_y == QDiv(QSub(QInt(area_height), scaled_height), QInt(2))
             image_x == QDiv(QSub(QInt(x), offset_x), scale)
             image_y == QDiv(QSub(QInt(y), offset_y), scale)
         IN  [x |-> image_x, y |-> image_y]
    ELSE [x |-> QInt(x), y |-> QInt(y)]

(* The draw callback's transform for the annotations, applied to a point of a
   stroke: ctx.translate(offset_x, offset_y) then ctx.scale(scale, scale), or
   no transform without a surface *)
annotation_to_display(surface, width, height, point) ==
    IF surface # None
    THEN LET image_width == QInt(surface[1].width)
             image_height == QInt(surface[1].height)
             scale_x == QDiv(QInt(width), image_width)
             scale_y == QDiv(QInt(height), image_height)
             scale == QMin(scale_x, scale_y)
             scaled_width == QMul(image_width, scale)
             scaled_height == QMul(image_height, scale)
             offset_x == QDiv(QSub(QInt(width), scaled_width), QInt(2))
             offset_y == QDiv(QSub(QInt(height), scaled_height), QInt(2))
         IN  [x |-> QAdd(offset_x, QMul(scale, point.x)),
              y |-> QAdd(offset_y, QMul(scale, point.y))]
    ELSE point

(* The pointer is somewhere on an allocated drawing area *)
InitMapping ==
    /\ current_tool = "Pencil"
    /\ current_color = Red
    /\ current_thickness = 3
    /\ strokes = <<>>
    /\ current_stroke = None
    /\ info_log = <<>>
    /\ status = <<"Ready">>
    /\ call = [op |-> "new", args |-> <<>>, ret |-> Unit, via |-> "new"]
    /\ hist = <<>>
    /\ snap = None
    /\ prev = Fields("Pencil", Red, 3, <<>>, None)
    /\ ncalls = 0
    /\ is_drawing = FALSE
    /\ canvas = <<>>
    /\ target_file = None
    /\ clipboard = None
    /\ last_export = None
    /\ EditorOpened
    /\ PixelsIdle
    /\ argv = <<>>
    /\ stdout = <<>>
    /\ exit_code = None
    /\ \E surface \in SurfaceInputs, area_width \in AreaInputs, area_height \in AreaInputs :
       \E x \in 0..area_width, y \in 0..area_height :
           /\ screenshot_surface = (IF surface = None THEN None ELSE Some("screenshot"))
           /\ pointer = [surface |-> surface, area_width |-> area_width,
                         area_height |-> area_height, x |-> x, y |-> y]
    /\ pressed_point = None
    /\ motion_point = None
    /\ coordinates = None
    /\ drawn_point = None
    /\ stroke_arg = <<>>
    /\ ctx = None
    /\ thickness_scale = 3

(* connect_pressed up to the point it hands to start_stroke *)
PointerPressed ==
    /\ pressed_point = None
    /\ pressed_point' = Some(pressed_to_image(pointer.surface, pointer.area_width,
                                              pointer.area_height, pointer.x, pointer.y))
    /\ UNCHANGED <<pointer, motion_point, coordinates, drawn_point, process_vars, draw_vars,
                   thickness_scale, annotation_vars, editor_vars, capture_vars, pixel_vars>>

(* connect_motion up to the point it hands to the status bar and to
   add_point_to_stroke *)
PointerMotion ==
    /\ motion_point = None
    /\ LET image == motion_to_image(pointer.surface, pointer.area_width,
                                    pointer.area_height, pointer.x, pointer.y)
       IN  /\ coordinates' = Some(image)
           /\ motion_point' = Some(image)
    /\ UNCHANGED <<pointer, pressed_point, drawn_point, process_vars, draw_vars,
                   thickness_scale, annotation_vars, editor_vars, capture_vars, pixel_vars>>

(* The draw callback places the point of the press on the drawing area *)
DrawAnnotations ==
    /\ pressed_point # None
    /\ drawn_point = None
    /\ drawn_point' = Some(annotation_to_display(pointer.surface, pointer.area_width,
                                                 pointer.area_height, pressed_point[1]))
    /\ UNCHANGED <<pointer, pressed_point, motion_point, coordinates, process_vars,
                   draw_vars, thickness_scale, annotation_vars, editor_vars, capture_vars,
                   pixel_vars>>

NextMapping ==
    \/ PointerPressed
    \/ PointerMotion
    \/ DrawAnnotations

SpecMapping == InitMapping /\ [][NextMapping]_vars

----------------------------------------------------------------------------
(* Properties of the annotation tool state (C1..C10) *)

Last(seq) == seq[Len(seq)]

Front(seq) == SubSeq(seq, 1, Len(seq) - 1)

SetterOps == {"set_tool", "set_color", "set_thickness"}

(* hist is exactly start_stroke(p); add_point_to_stroke(q); finish_stroke() *)
StartAddFinish ==
    /\ Len(hist) = 3
    /\ hist[1].op = "start_stroke"
    /\ hist[2].op = "add_point_to_stroke"
    /\ hist[3].op = "finish_stroke"

(* hist is start_stroke(p); any number of add_point_to_stroke; cancel_stroke() *)
StartAddsCancel ==
    /\ Len(hist) >= 2
    /\ hist[1].op = "start_stroke"
    /\ \A i \in 2..(Len(hist) - 1) : hist[i].op = "add_point_to_stroke"
    /\ Last(hist).op = "cancel_stroke"

(* C1: from Idle, start_stroke(p); add_point_to_stroke(q); finish_stroke()   *)
(* appends exactly one stroke to strokes, that stroke holds the points       *)
(* <<p, q>> in this order and is finished, and current_stroke is None.       *)
C1_StartAddFinishAppendsOne ==
    (StartAddFinish /\ snap[1].idle) =>
        /\ Len(strokes) = Len(snap[1].strokes) + 1
        /\ Front(strokes) = snap[1].strokes
        /\ Last(strokes).points = <<hist[1].args[1], hist[2].args[1]>>
        /\ Last(strokes).finished = TRUE
        /\ current_stroke = None

C1_Witness ==
    /\ StartAddFinish
    /\ snap[1].idle
    /\ hist[1].args[1] # hist[2].args[1]
    /\ Len(strokes) = 2

(* C2: after start_stroke(p), any number of add_point_to_stroke calls and    *)
(* cancel_stroke(), strokes is exactly what it was before start_stroke and   *)
(* current_stroke is None.                                                   *)
C2_CancelNeverAddsToHistory ==
    StartAddsCancel =>
        /\ strokes = snap[1].strokes
        /\ current_stroke = None

C2_Witness ==
    /\ StartAddsCancel
    /\ Len(hist) >= 3
    /\ Len(strokes) >= 1

(* The defaults the documentation gives for each tool *)
C3_DocumentedDefault ==
    [t \in ToolType |->
        IF t = "Highlighter" THEN 8 ELSE IF t = "Pencil" THEN 3 ELSE 2]

(* C3: set_tool(t) sets current_tool to t and current_thickness to t's       *)
(* default (Pencil 3.0, Line 2.0, Arrow 2.0, Highlighter 8.0), whatever the  *)
(* thickness was before.                                                     *)
C3_SetToolResetsThickness ==
    call.op = "set_tool" =>
        /\ current_tool = call.args[1]
        /\ current_thickness = C3_DocumentedDefault[call.args[1]]

C3_Witness ==
    /\ call.op = "set_tool"
    /\ call.args = <<"Highlighter">>
    /\ prev.current_thickness \in ThicknessInputs
    /\ current_thickness = 8

(* A stroke carries the settings recorded in s *)
StyledAs(stroke, s) ==
    /\ stroke.tool_type = s.tool
    /\ stroke.color = s.color
    /\ stroke.thickness = s.thickness

(* C4: set_tool, set_color and set_thickness leave the finished strokes and  *)
(* the in-progress stroke unchanged, and a stroke has the tool, color and    *)
(* thickness that were current at its start_stroke call, both while it is    *)
(* in progress and when it is finished.                                      *)
C4_SettingsNeverRetroactive ==
    /\ call.op \in SetterOps =>
          /\ strokes = prev.strokes
          /\ current_stroke = prev.current_stroke
    /\ current_stroke # None => StyledAs(current_stroke[1], snap[1])
    /\ (call.op = "finish_stroke" /\ prev.current_stroke # None) =>
          StyledAs(Last(strokes), snap[1])

C4_Witness ==
    /\ call.op = "finish_stroke"
    /\ prev.current_stroke # None
    /\ snap[1].tool # current_tool
    /\ snap[1].color # current_color
    /\ snap[1].thickness # current_thickness
    /\ StyledAs(Last(strokes), snap[1])

(* C5 as stated: start_stroke while a stroke is in progress is ignored, the  *)
(* in-progress stroke with its points is left unchanged.                     *)
C5_StartWhileDrawingIgnored ==
    (call.op = "start_stroke" /\ prev.current_stroke # None) =>
        current_stroke = prev.current_stroke

(* C5 amended: start_stroke while a stroke is in progress replaces it: the   *)
(* previous in-progress stroke is discarded without being appended to        *)
(* strokes, and current_stroke is a new unfinished stroke holding only the   *)
(* new point, with the current tool, color and thickness.                    *)
C5_StartWhileDrawingReplaces ==
    (call.op = "start_stroke" /\ prev.current_stroke # None) =>
        /\ strokes = prev.strokes
        /\ current_stroke # None
        /\ current_stroke[1].points = call.args
        /\ current_stroke[1].finished = FALSE
        /\ current_stroke[1].tool_type = prev.current_tool
        /\ current_stroke[1].color = prev.current_color
        /\ current_stroke[1].thickness = prev.current_thickness

C5_Witness ==
    /\ call.op = "start_stroke"
    /\ prev.current_stroke # None
    /\ Len(prev.current_stroke[1].points) >= 2
    /\ prev.current_stroke[1].points[1] # call.args[1]
    /\ prev.current_stroke[1].tool_type # prev.current_tool

(* C6: in the Idle state add_point_to_stroke, finish_stroke and              *)
(* cancel_stroke change none of strokes, current_stroke, current_tool,       *)
(* current_color and current_thickness.                                      *)
C6_IdleNoOps ==
    (/\ call.op \in {"add_point_to_stroke", "finish_stroke", "cancel_stroke"}
     /\ prev.current_stroke = None) =>
        Now = prev

C6_Witness ==
    /\ call.op = "finish_stroke"
    /\ prev.current_stroke = None
    /\ Len(strokes) >= 1

(* C7: every stroke in strokes is finished and the in-progress stroke, if    *)
(* any, is not.                                                              *)
C7_OnlyInProgressUnfinished ==
    /\ \A i \in 1..Len(strokes) : strokes[i].finished = TRUE
    /\ current_stroke # None => current_stroke[1].finished = FALSE

C7_Witness ==
    /\ Len(strokes) >= 2
    /\ current_stroke # None

(* C8: add_point_to_stroke appends at the end of the in-progress stroke's    *)
(* points, and no start_stroke, add_point_to_stroke, finish_stroke,          *)
(* cancel_stroke or set_* call changes the points of a stroke already in     *)
(* strokes.                                                                  *)
C8_PointsAppendOnlyThenFrozen ==
    /\ (call.op = "add_point_to_stroke" /\ prev.current_stroke # None) =>
          /\ current_stroke # None
          /\ current_stroke[1].points =
                prev.current_stroke[1].points \o call.args
    /\ call.op \in SetterOps \cup {"start_stroke", "add_point_to_stroke",
                                    "finish_stroke", "cancel_stroke"} =>
          /\ Len(strokes) >= Len(prev.strokes)
          /\ \A i \in 1..Len(prev.strokes) :
                strokes[i].points = prev.strokes[i].points

C8_Witness ==
    /\ call.op = "add_point_to_stroke"
    /\ prev.current_stroke # None
    /\ Len(current_stroke[1].points) >= 3
    /\ current_stroke[1].points[1] # current_stroke[1].points[3]
    /\ Len(strokes) >= 1

(* C9: clear_all in any state leaves strokes empty and current_stroke None   *)
(* and leaves current_tool, current_color and current_thickness unchanged.   *)
C9_ClearAllEmptiesKeepsSettings ==
    call.op = "clear_all" =>
        /\ strokes = <<>>
        /\ current_stroke = None
        /\ current_tool = prev.current_tool
        /\ current_color = prev.current_color
        /\ current_thickness = prev.current_thickness

C9_Witness ==
    /\ call.op = "clear_all"
    /\ prev.current_stroke # None
    /\ Len(prev.strokes) >= 1
    /\ current_thickness \in ThicknessInputs

(* C10 as stated: clear_all returns the number of finished strokes it        *)
(* cleared, strokes.len() immediately before the call.                       *)
C10_ClearAllReturnsCount ==
    call.op = "clear_all" =>
        /\ call.ret # Unit
        /\ call.ret = <<Len(prev.strokes)>>

(* C10 amended: clear_all returns nothing; it logs strokes.len() as it was   *)
(* immediately before the call, and the Clear button reports that count in   *)
(* the status bar, calling clear_all only when the count is positive and     *)
(* reporting that there is nothing to clear otherwise.                       *)
C10_ClearCountReported ==
    /\ call.op = "clear_all" =>
          /\ call.ret = Unit
          /\ info_log = <<Len(prev.strokes)>>
    /\ call.via = "clear_clicked" =>
          IF Len(prev.strokes) > 0
          THEN /\ call.op = "clear_all"
               /\ status = <<"Cleared {} annotations", Len(prev.strokes)>>
          ELSE /\ call.op = "none"
               /\ status = <<"No annotations to clear">>
               /\ Now = prev

C10_Witness ==
    /\ call.op = "clear_all"
    /\ call.via = "clear_clicked"
    /\ Len(prev.strokes) = 2
    /\ status = <<"Cleared {} annotations", 2>>

----------------------------------------------------------------------------
(* Properties of the editor: rendering, input and export (C11..C20) *)

(* The operations of the render made by the latest step *)
LatestRender ==
    IF call.via = "draw_func" THEN canvas ELSE last_export[1].ops

(* The strokes a render has to show, bottom to top *)
Layers ==
    strokes \o (IF current_stroke # None THEN <<current_stroke[1]>> ELSE <<>>)

(* C11: every render (redraw, save, copy) paints the screenshot before any
   stroke, then the finished strokes in the order of `strokes`, then the
   in-progress stroke last; only the window backdrop of the on-screen redraw
   lies under the screenshot *)
C11_RenderOrder ==
    call.op = "draw_all" =>
        LET ops == LatestRender
            base == IF call.via = "draw_func" THEN 3 ELSE 1
        IN  /\ Len(ops) = base + Len(Layers)
            /\ ops[base].kind = "screenshot"
            /\ \A j \in 1..(base - 1) : ops[j].kind \in {"gradient", "texture"}
            /\ \A k \in 1..Len(Layers) :
                /\ ops[base + k].kind = "stroke"
                /\ ops[base + k].what[1] = Layers[k]

(* C11 witness: a redraw of a finished stroke under an in-progress one, after
   a successful export of the same annotations *)
C11_Witness ==
    /\ call.op = "draw_all"
    /\ call.via = "draw_func"
    /\ Len(strokes) >= 1
    /\ current_stroke # None
    /\ last_export # None
    /\ last_export[1].fail = "none"
    /\ Len(last_export[1].ops) = 1 + Len(Layers)

(* C12: Escape during a stroke cancels that stroke and nothing else: finished
   strokes, tool, color and thickness stay, and nothing outside the tools is
   touched but the drawing flag and the frame to redraw, the capture side
   least of all; Escape with no stroke in progress leaves the annotation
   state as it is *)
C12_EscapeCancelsOnlyStroke ==
    [][call'.via = "Escape" =>
        /\ strokes' = strokes
        /\ current_tool' = current_tool
        /\ current_color' = current_color
        /\ current_thickness' = current_thickness
        /\ current_stroke' = None
        /\ current_stroke = None => UNCHANGED tools
        /\ UNCHANGED <<screenshot_surface, target_file, clipboard, last_export>>
        /\ UNCHANGED capture_vars
    ]_vars

(* C12 witness: Escape has just cancelled a stroke drawn over a finished one *)
C12_Witness ==
    /\ call.via = "Escape"
    /\ call.op = "cancel_stroke"
    /\ prev.current_stroke # None
    /\ current_stroke = None
    /\ ~is_drawing
    /\ Len(strokes) >= 1
    /\ strokes = prev.strokes

(* The capture operation under way went through proceed_with_screenshot *)
Threaded == capture_op.path \in {"full", "region"}

(* C13: every blocking capture call is made on a spawned worker thread, none
   on the thread of the UI event loop *)
C13_CapturesOnWorker ==
    \A i \in 1..Len(captures) : captures[i].thread = "worker"

(* C13: the selection preview has been captured inside a main-loop callback *)
C13_CaptureOnUiThread ==
    \E i \in 1..Len(captures) :
        /\ captures[i].kind = "preview"
        /\ captures[i].thread = "ui"

(* The bookkeeping of one proceed_with_screenshot call *)
OneShot ==
    Threaded =>
        /\ capture_op.sent <= 1
        /\ (worker = "done") <=> (capture_op.sent = 1)
        /\ capture_op.received <= capture_op.sent
        /\ Len(channel) = capture_op.sent - capture_op.received
        /\ capture_op.editors + capture_op.dialogs <= 1
        /\ (timer = "stopped") <=> (capture_op.editors + capture_op.dialogs = 1)
        /\ timer = "stopped" =>
            /\ worker \in {"done", "dead"}
            /\ (capture_op.received = 1) \/ (worker = "dead")

(* C14: a worker that returns from the capture sends exactly one result and
   ends; the timer receives at most one result, stops once it has a result or
   sees the disconnect, produces at most one editor or dialog, and, the thread
   and the main loop being scheduled, eventually stops *)
C14_OneShotDelivery ==
    /\ []OneShot
    /\ (timer = "active") ~> (timer = "stopped")

(* C14 witness: the one result has been sent, received and turned into the editor *)
C14_Witness ==
    /\ capture_op.path = "full"
    /\ worker = "done"
    /\ capture_op.sent = 1
    /\ capture_op.received = 1
    /\ capture_op.editors = 1
    /\ timer = "stopped"
    /\ channel = <<>>

(* C16: a failed capture (an error from the worker, a dead worker, a failed
   window capture or listing) ends in one modal dialog over the re-shown
   capture window, and no editor *)
C16_CaptureFailureReshows ==
    capture_op.result = "capture_failed" =>
        /\ capture_op.editors = 0
        /\ capture_op.dialogs = 1
        /\ stage \in {"main", "closed"}
        /\ stage = "main" => (window.visible /\ ~window.closed)
        /\ dialog # None => stage = "main"

(* C16 witness: the worker died, the poll saw the disconnect *)
C16_Witness ==
    /\ capture_op.result = "capture_failed"
    /\ capture_op.path = "region"
    /\ worker = "dead"
    /\ timer = "stopped"
    /\ dialog = Some("Screenshot capture failed unexpectedly")
    /\ window.visible

(* C17: bytes that cannot be decoded end, on every path, in one modal dialog
   over the re-shown capture window, and no editor *)
C17_DecodeFailureReshows ==
    capture_op.result = "decode_failed" =>
        /\ capture_op.editors = 0
        /\ capture_op.dialogs = 1
        /\ dialog # None => window.visible

(* C17: after a full-screen capture whose bytes do not decode the dialog is up
   and the capture window is closed and hidden *)
C17_WindowStaysHidden ==
    /\ capture_op.result = "decode_failed"
    /\ capture_op.path = "full"
    /\ dialog = Some("Failed to open editor")
    /\ ~window.visible
    /\ window.closed

(* The status bar shows an export error *)
ExportErrorShown ==
    status[1] \in {"Error saving file: {}", "Error copying to clipboard"}

(* C18: a failed export leaves the previous file / clipboard content in place,
   leaves no partial file, and reports the error in the status bar *)
C18_ExportAllOrNothing ==
    (last_export # None /\ last_export[1].fail # "none") =>
        /\ last_export[1].via = "save" =>
            /\ target_file = last_export[1].before
            /\ target_file # Some("partial")
        /\ last_export[1].via = "copy" => clipboard = last_export[1].before
        /\ call.via \in {"save", "copy"} => ExportErrorShown

(* C18: the run TLC reports ends in a save that failed while the image was
   being written over an existing file *)
C18_PartialFileLeft ==
    /\ last_export # None
    /\ last_export[1].via = "save"
    /\ last_export[1].fail = "save_write"
    /\ last_export[1].before = Some("previous")
    /\ target_file = Some("partial")
    /\ ExportErrorShown

RECURSIVE into_raw(_)
(* The tightly packed RGBA8 buffer of a pixel sequence *)
into_raw(pixels) ==
    IF pixels = <<>> THEN <<>> ELSE Head(pixels) \o into_raw(Tail(pixels))

(* C19: with a stride of at least width*4 and no annotations, decode-to-surface
   followed by the export loop gives back the original packed buffer: width *
   height * 4 bytes, every channel as it was, no padding byte *)
C19_RoundTrip ==
    (px_stage = "exported" /\ stride >= rgba_image.width * 4) =>
        /\ Len(rgba_data) = rgba_image.width * rgba_image.height * 4
        /\ rgba_data = into_raw(rgba_image.pixels)

(* C19 witness: a 2x2 image of differing pixels has gone through padded
   surfaces on both sides *)
C19_Witness ==
    /\ px_stage = "exported"
    /\ rgba_image.width >= 2
    /\ rgba_image.height >= 2
    /\ stride > rgba_image.width * 4
    /\ render_stride > rgba_image.width * 4
    /\ rgba_image.pixels[1] # rgba_image.pixels[2]
    /\ rgba_data = into_raw(rgba_image.pixels)

(* The pixels whose four bytes lie inside the destination buffer *)
Fitting ==
    {xy \in (0..(rgba_image.width - 1)) \X (0..(rgba_image.height - 1)) :
        xy[2] * stride + xy[1] * 4 + 3 < stride * rgba_image.height}

(* C20: load_image_data writes only inside the buffer, at y*stride + x*4 + k;
   exactly the pixels that do not fit are left out, every other pixel is
   converted; row padding stays zero *)
C20_WritesInBounds ==
    px_stage \in {"loaded", "load_failed", "painted", "exported"} =>
        /\ Len(surface_data) = stride * rgba_image.height
        /\ \A offset \in written : offset >= 0 /\ offset < Len(surface_data)
        /\ written = {xy[2] * stride + xy[1] * 4 + k : xy \in Fitting, k \in 0..3}
        /\ stride >= rgba_image.width * 4 =>
            /\ \A xy \in Fitting :
                LET at == xy[2] * stride + xy[1] * 4
                    px == rgba_image.pixels[xy[2] * rgba_image.width + xy[1] + 1]
                IN  <<surface_data[at + 1], surface_data[at + 2], surface_data[at + 3],
                      surface_data[at + 4]>> = <<px[3], px[2], px[1], px[4]>>
            /\ \A y \in 0..(rgba_image.height - 1) :
                \A pad \in (rgba_image.width * 4)..(stride - 1) :
                    surface_data[y * stride + pad + 1] = 0

(* C20 witness: with a stride one pixel short the last pixel of the last row
   was left out and the pixel before it in memory was still converted *)
C20_Witness ==
    /\ px_stage = "load_failed"
    /\ rgba_image.width >= 2
    /\ rgba_image.height >= 2
    /\ stride = rgba_image.width * 4 - 4
    /\ Fitting # (0..(rgba_image.width - 1)) \X (0..(rgba_image.height - 1))
    /\ <<0, rgba_image.height - 1>> \in Fitting
    /\ (rgba_image.height - 1) * stride \in written


----------------------------------------------------------------------------
(* Properties of loading, cropping, coordinates and the toolbar (C21..C30) *)

(* C21: an image decoded with width 0 or height 0 is never stored as the
   screenshot surface: load_image_data fails on it. *)
C21_ZeroAreaRejected ==
    (rgba_image.width = 0 \/ rgba_image.height = 0)
        => (screenshot_surface = None /\ px_stage # "loaded")

(* A zero-area image has been loaded and stored as the surface *)
C21_ZeroAreaStored ==
    /\ rgba_image.width = 0
    /\ rgba_image.height > 0
    /\ stride = 0
    /\ px_stage = "loaded"
    /\ screenshot_surface = Some("screenshot")
    /\ surface_data = <<>>


(* The crops made so far, by either implementation *)
CropResults == {r[1] : r \in {region_result, direct_result} \ {None}}

(* C22: a crop asked with x >= image width or y >= image height returns the
   error 'Crop region is outside image bounds' as a value and no image bytes,
   from either implementation. *)
C22_OutsideIsBoundsError ==
    (crop_request # <<>>
     /\ (crop_request.x >= crop_request.image.width
         \/ crop_request.y >= crop_request.image.height))
        => \A r \in CropResults :
              /\ ~r.ok
              /\ r.error = Some("Crop region is outside image bounds")
              /\ r.bytes = None

(* Both implementations have refused a region that starts on the right edge *)
C22_Witness ==
    /\ crop_request # <<>>
    /\ crop_request.x = crop_request.image.width
    /\ crop_request.y = 0
    /\ crop_request.width > 0
    /\ region_result # None
    /\ direct_result # None
    /\ ~region_result[1].ok
    /\ ~direct_result[1].ok

(* C23: a crop asked with x = 0, y = 0 and the image's own width and height
   computes the rectangle (0, 0, width, height) and returns an image with the
   dimensions and the pixels of the original. *)
C23_FullCropIsWhole ==
    (crop_request # <<>>
     /\ crop_request.x = 0
     /\ crop_request.y = 0
     /\ crop_request.width = crop_request.image.width
     /\ crop_request.height = crop_request.image.height)
        => \A r \in CropResults :
              /\ r.ok
              /\ r.rect = <<0, 0, crop_request.image.width, crop_request.image.height>>
              /\ r.bytes = Some(crop_request.image)

(* Both implementations have cropped a 2x2 image to all of itself *)
C23_Witness ==
    /\ crop_request # <<>>
    /\ crop_request.image.width = 2
    /\ crop_request.image.height = 2
    /\ crop_request.x = 0
    /\ crop_request.y = 0
    /\ crop_request.width = 2
    /\ crop_request.height = 2
    /\ region_result # None
    /\ direct_result # None
    /\ region_result[1].bytes = Some(crop_request.image)


(* C29: whenever a crop is accepted, the rectangle it computed lies inside the
   image: width and height at least 1, and x + width, y + height not past the
   image's width and height, whatever x, y, width and height were asked. *)
C29_RectInsideImage ==
    \A r \in CropResults :
        r.ok => /\ r.rect[3] >= 1
                /\ r.rect[4] >= 1
                /\ r.rect[1] + r.rect[3] <= crop_request.image.width
                /\ r.rect[2] + r.rect[4] <= crop_request.image.height

(* A region that starts left of the image and is wider than it has been
   accepted with a rectangle wider than the image *)
C29_Overhang ==
    /\ crop_request # <<>>
    /\ crop_request.x = 0 - 1
    /\ crop_request.width = crop_request.image.width + 1
    /\ region_result # None
    /\ region_result[1].ok
    /\ region_result[1].rect[1] = 0
    /\ region_result[1].rect[3] = crop_request.image.width + 1

(* C30: crop_image_region and crop_png_data_direct agree on every input: on
   the same image and the same x, y, width, height both fail with the bounds
   error or both compute the same rectangle. *)
C30_CropsAgree ==
    (region_result # None /\ direct_result # None)
        => /\ region_result[1].ok = direct_result[1].ok
           /\ region_result[1].error = direct_result[1].error
           /\ region_result[1].rect = direct_result[1].rect

(* Both have accepted a region that starts above and left of the image *)
C30_Witness ==
    /\ crop_request # <<>>
    /\ crop_request.x < 0
    /\ crop_request.y < 0
    /\ crop_request.width > 1
    /\ region_result # None
    /\ direct_result # None
    /\ region_result[1].ok
    /\ direct_result[1].ok

(* Both have refused a region that starts below the image *)
C30_WitnessRefused ==
    /\ crop_request # <<>>
    /\ crop_request.y >= crop_request.image.height
    /\ region_result # None
    /\ direct_result # None
    /\ ~region_result[1].ok
    /\ ~direct_result[1].ok


(* C27: after any sequence of press, move, release, Escape and Clear events
   the is_drawing flag is true exactly when current_stroke is Some. *)
C27_DrawingIffStroke == is_drawing <=> (current_stroke # None)

(* The Clear button has dropped the stroke under the pointer and the flag
   still says a stroke is being drawn *)
C27_FlagWithoutStroke ==
    /\ call.via = "clear_clicked"
    /\ call.op = "clear_all"
    /\ prev.current_stroke # None
    /\ current_stroke = None
    /\ is_drawing


(* C28: after any sequence of toolbar tool selections and slider changes the
   value the thickness slider shows is AnnotationTools.current_thickness. *)
C28_SliderShowsThickness == thickness_scale = current_thickness

(* A tool has been picked on the toolbar: the tools took the tool's default
   thickness and the slider kept its value *)
C28_SliderLeftBehind ==
    /\ call.via = "tool_changed"
    /\ current_tool = "Arrow"
    /\ current_thickness = 2
    /\ thickness_scale = 3


(* C25: started with the single flag --test, the program prints a readiness
   banner and exits with status 0 without opening any window. *)
C25_TestFlagBanner ==
    (argv = <<"--test">> /\ stage # "launch")
        => /\ stdout # <<>>
           /\ exit_code = Some(0)
           /\ ~window.visible

(* Started with --test, the process has ended with a failure status and has
   printed nothing *)
C25_NoBanner ==
    /\ argv = <<"--test">>
    /\ stage = "exited"
    /\ exit_code = Some(1)
    /\ stdout = <<>>


(* The kinds of the calls made on the context, in order *)
Kinds(calls) == [i \in 1..Len(calls) |-> calls[i].kind]

(* The calls that put down a path or ink it *)
PathCalls(calls) == SelectSeq(Kinds(calls), LAMBDA k : k \in {"move_to", "line_to", "stroke"})

(* The calls of one shaft: a segment, inked *)
ShaftOnly == <<"move_to", "line_to", "stroke">>

(* The calls of a shaft and a head: the segment, then the two barbs *)
ShaftAndHead == ShaftOnly \o <<"move_to", "line_to", "move_to", "line_to", "stroke">>

(* C26: for an Arrow stroke the arrowhead is drawn exactly when the stroke has
   at least 2 points and its first point differs from its last; with first
   equal to last only the zero-length shaft is drawn, with a single point
   nothing is drawn, and drawing never raises an error. *)
C26_ArrowheadIffDistinctEnds ==
    (ctx # None /\ stroke_arg.tool_type = "Arrow")
        => LET points == stroke_arg.points
               path == PathCalls(ctx[1].calls)
               distinct == Len(points) >= 2 /\ points[1] # points[Len(points)]
           IN  /\ ctx[1].error = None
               /\ (path = ShaftAndHead) <=> distinct
               /\ (Len(points) >= 2 /\ ~distinct) => path = ShaftOnly
               /\ Len(points) <= 1 => path = <<>>

(* An arrow dragged away and back to where it began has been drawn as its
   shaft alone *)
C26_Witness ==
    /\ ctx # None
    /\ stroke_arg.tool_type = "Arrow"
    /\ Len(stroke_arg.points) = 3
    /\ stroke_arg.points[1] = stroke_arg.points[3]
    /\ stroke_arg.points[2] # stroke_arg.points[1]
    /\ PathCalls(ctx[1].calls) = ShaftOnly


(* C24: for the same pointer position, area size and image size the press
   handler, the motion handler and the status-bar readout come to the same
   image coordinates, nothing is clamped to the image, and the draw callback's
   translate and scale take the point back to the pointer's position. *)
C24_MappingAgreesAndInverts ==
    /\ (pressed_point # None /\ motion_point # None) => pressed_point = motion_point
    /\ (coordinates # None) => coordinates = motion_point
    /\ (drawn_point # None)
          => drawn_point = Some([x |-> QInt(pointer.x), y |-> QInt(pointer.y)])

(* A press in the margin left of the image has been mapped to a negative x by
   all three and drawn back under the pointer *)
C24_Witness ==
    /\ pointer # <<>>
    /\ pointer.surface # None
    /\ pressed_point # None
    /\ motion_point # None
    /\ coordinates # None
    /\ drawn_point # None
    /\ pressed_point[1].x[1] < 0
    /\ coordinates[1].x[1] < 0
    /\ pointer.x = 0
    /\ pointer.y > 0

====
